---- MODULE Spec2Model ----
(***************************************************************************)
(* A model of the Socket Agent client library:                             *)
(*   - Client: descriptor discovery and the endpoint name table            *)
(*     (socketagentlib/client.py),                                         *)
(*   - Executor: the HTTP retry loop and response classification           *)
(*     (socketagentlib/executor.py),                                       *)
(*   - TokenManager / IdentityClient: the token lifecycle                  *)
(*     (socketagentlib/identity.py),                                       *)
(*   - SocketAgent: the ask() tool-calling loop (socketagentlib/agent.py). *)
(*                                                                         *)
(* Python's None is the string None below; a value is "truthy" when it is  *)
(* neither None nor the empty string.  A dict is a set of <<key, value>>   *)
(* pairs.                                                                  *)
(***************************************************************************)
EXTENDS Naturals, Integers, Sequences, FiniteSets, TLC

VARIABLES
    \* ---- Client (client.py)
    descriptor,       \* Client.descriptor: its endpoints, <<>> while it is None
    endpoint_cache,   \* Client._endpoint_cache: key -> endpoint
    has_executor,     \* Client.executor is not None
    max_retries,      \* Client.executor.max_retries
    \* ---- one Client.discover() in progress, and a caller looking up meanwhile
    disc_pc,          \* position of the discover() in progress
    disc_old,         \* the table as it was when that discover() assigned the descriptor
    disc_todo,        \* the writes _build_endpoint_cache has still to make
    observed,         \* what the latest get_endpoint / list_endpoints returned
    \* ---- functions applied to one drawn input
    fetch_response,   \* what the transport answers to DescriptorFetcher.fetch
    fetch_result,     \* what DescriptorFetcher.fetch returned or raised
    tools_args,       \* the endpoint and format given to the tool generator
    tools_result,     \* what the tool generator returned or raised
    execute_args,     \* the arguments of one Executor.execute
    execute_kwargs,   \* the request_kwargs that Executor.execute built
    \* ---- one Client.call through the middlewares (socket_agent_client/client.py)
    middlewares,      \* Client.middlewares: the hooks of each, in registration order
    mw_pc,            \* position of the call
    mw_i,             \* index of the middleware whose hook runs next
    mw_params,        \* params, as the hooks have made it
    mw_error,         \* e, as the hooks have made it
    mw_response,      \* response, as the hooks have made it
    mw_trace,         \* the hooks that have run, with what each received
    \* ---- the client's credentials (client.py, executor.py)
    auth_token,       \* Client.auth_token: the static bearer token, or None
    has_identity,     \* Client.identity_client is not None
    executor_auth_token,  \* Client.executor.auth_token
    cred_result,      \* how the latest client operation ended
    logged_out,       \* logout() has returned and authenticate() has not succeeded since
    \* ---- one Client.call / Executor.execute in progress
    ex_pc,            \* "idle" | "running" | "done"
    ex_caller,        \* "client" | "agent": who awaits the call
    ex_args,          \* the endpoint name and the parameters of the call
    ex_req,           \* request_kwargs of the running execute
    attempt,          \* the loop variable of _execute_with_retries
    last_error,       \* last_error of _execute_with_retries: <<class, message>>
    sleeps,           \* the time.sleep() calls of the running execute, in order
    requests,         \* the HTTP requests issued by the running execute, in order
    outcomes,         \* what the transport answered to each attempt, in order
    call_result,      \* how the call ended: returned response or raised error
    \* ---- TokenManager / IdentityClient (identity.py)
    now,              \* time.time()
    access_token, refresh_token, expires_at,
    issued,           \* when and with which expires_in the stored tokens were set
    id_pc,            \* per task: the network call the coroutine is suspended at
    id_sent,          \* per task: the refresh token sent with that call
    id_calls,         \* per task: network calls issued by the current operation
    id_pre,           \* per task: the token state its operation found
    id_result,        \* per task: how its last operation ended
    \* ---- SocketAgent (agent.py)
    conversation_history,
    ask_pc,           \* "idle" | "tools" | "done"
    ask_question,
    ask_messages,     \* the message list of the running ask
    ask_first,        \* the first completion of the running ask
    ask_second,       \* the second completion of the running ask
    ask_next,         \* index of the tool call being executed
    ask_tool_results,
    ask_hist0,        \* the history when the running ask began
    llm_calls,        \* completions requested by the running ask
    exec_calls,       \* Executor.execute invocations of the running ask
    ask_result,       \* how the ask ended
    ask_count         \* asks begun so far

discVars == <<disc_pc, disc_old, disc_todo, observed>>
fnVars == <<fetch_response, fetch_result, tools_args, tools_result, execute_args,
            execute_kwargs>>
mwVars == <<middlewares, mw_pc, mw_i, mw_params, mw_error, mw_response, mw_trace>>
credVars == <<auth_token, has_identity, executor_auth_token, cred_result, logged_out>>
sideVars == <<mwVars, credVars>>
clientVars == <<descriptor, endpoint_cache, has_executor, max_retries, discVars, fnVars,
                sideVars>>
execVars == <<ex_pc, ex_caller, ex_args, ex_req, attempt, last_error, sleeps, requests,
              outcomes, call_result>>
idVars == <<now, access_token, refresh_token, expires_at, issued, id_pc, id_sent,
            id_calls, id_pre, id_result>>
agentVars == <<conversation_history, ask_pc, ask_question, ask_messages, ask_first,
               ask_second, ask_next, ask_tool_results, ask_hist0, llm_calls, exec_calls,
               ask_result, ask_count>>
vars == <<clientVars, execVars, idVars, agentVars>>

None == "<None>"

Truthy(s) == s \notin {None, ""}

(***************************************************************************)
(* Bounds of the model.                                                    *)
(***************************************************************************)
MaxEndpoints == 2
MaxRetriesBound == 3
MaxTime == 34
MaxTimeConcurrent == 2
MaxToolCalls == 2
MaxAsks == 2
MaxPayloadEndpoints == 2
MaxParameters == 2
MaxMiddlewares == 2

(***************************************************************************)
(* dict helpers                                                            *)
(***************************************************************************)
DictKeys(d) == {p[1] : p \in d}

DictGet(d, k) == IF k \in DictKeys(d) THEN (CHOOSE p \in d : p[1] = k)[2] ELSE None

Put(cache, k, v) == [x \in (DOMAIN cache) \cup {k} |-> IF x = k THEN v ELSE cache[x]]

EmptyCache == [x \in {} |-> None]

(***************************************************************************)
(* Endpoints and descriptors (models.py).  A path is the sequence of its   *)
(* segments: <<"users", "{id}">> is "/users/{id}".                         *)
(***************************************************************************)
PlaceholderSegs == {"{id}", "{uid}"}

Paths == {<<"users">>, <<"users", "{id}">>, <<"users", "{uid}">>}

OperationIds == {None, "list_users", "get_users", "op_a"}

\* The endpoints descriptors are made of.
Endpoints ==
    [path : Paths, method : {"GET"}, operationId : OperationIds]
    \cup [path : {<<"users">>}, method : {"POST"}, operationId : OperationIds]

RECURSIVE Join(_, _)
Join(parts, sep) ==
    IF parts = <<>> THEN ""
    ELSE IF Len(parts) = 1 THEN parts[1]
    ELSE parts[1] \o sep \o Join(Tail(parts), sep)

\* endpoint.path as the string the descriptor carries
PathStr(path) == "/" \o Join(path, "/")

\* f"{endpoint.method}:{endpoint.path}"
MethodPathKey(e) == e.method \o ":" \o PathStr(e.path)

\* endpoint.path.strip("/").split("/")
Split(path) == IF path = <<>> THEN <<"">> ELSE path

\* p.startswith("{") and p.endswith("}")
IsPlaceholder(p) == p \in PlaceholderSegs

\* "{" in endpoint.path
HasBrace(path) == \E i \in 1..Len(path) : path[i] \in PlaceholderSegs

Lower(m) ==
    CASE m = "GET" -> "get"
      [] m = "POST" -> "post"
      [] m = "PUT" -> "put"
      [] m = "PATCH" -> "patch"
      [] m = "DELETE" -> "delete"
      [] OTHER -> m

GenerateEndpointName(e) ==
    LET path_parts == SelectSeq(Split(e.path), LAMBDA p : ~IsPlaceholder(p))
        lower == Lower(e.method)
        method_prefix ==
            CASE lower = "get" -> IF HasBrace(e.path) THEN "get" ELSE "list"
              [] lower = "post" -> "create"
              [] lower = "put" -> "update"
              [] lower = "patch" -> "patch"
              [] lower = "delete" -> "delete"
              [] OTHER -> lower
    IN  IF path_parts # <<>> THEN method_prefix \o "_" \o Join(path_parts, "_")
        ELSE method_prefix

\* CacheEndpoint without the generated name.
CacheEndpoint_NoGeneratedName(cache, e) ==
    LET c1 == IF Truthy(e.operationId) THEN Put(cache, e.operationId, e) ELSE cache
    IN  Put(c1, MethodPathKey(e), e)

\* One iteration of the loop of _build_endpoint_cache.
CacheEndpoint(cache, e) ==
    LET c1 == IF Truthy(e.operationId) THEN Put(cache, e.operationId, e) ELSE cache
        c2 == Put(c1, GenerateEndpointName(e), e)
    IN  Put(c2, MethodPathKey(e), e)

RECURSIVE CacheAll(_, _)
CacheAll(cache, eps) ==
    IF eps = <<>> THEN cache ELSE CacheAll(CacheEndpoint(cache, Head(eps)), Tail(eps))

BuildEndpointCache(desc) == CacheAll(EmptyCache, desc)

NoDescriptor == <<>>

NoEndpoint == [path |-> <<>>, method |-> None, operationId |-> None]

\* self._endpoint_cache.get(name); NoEndpoint stands for None
FindEndpoint(cache, name) == IF name \in DOMAIN cache THEN cache[name] ELSE NoEndpoint

Found(cache, name) == FindEndpoint(cache, name) # NoEndpoint

\* DescriptorFetcher._validate_descriptor: at least one endpoint, methods of the
\* allowed set, no two endpoints with the same method:path.
ValidDescriptor(eps) ==
    /\ Len(eps) >= 1
    /\ \A i \in 1..Len(eps) : eps[i].method \in {"GET", "POST", "PUT", "DELETE", "PATCH"}
    /\ \A i, j \in 1..Len(eps) : i # j => MethodPathKey(eps[i]) # MethodPathKey(eps[j])

SeqsUpTo(S, n) == UNION {[1..k -> S] : k \in 0..n}

Descriptors == {d \in SeqsUpTo(Endpoints, MaxEndpoints) : ValidDescriptor(d)}

(***************************************************************************)
(* Executor (executor.py)                                                  *)
(***************************************************************************)
DEFAULT_MAX_RETRIES == 3

BaseUrl == "http://api"

\* urljoin(self.base_url, endpoint.path) for a base URL without a path and an
\* endpoint path that starts with "/"
UrlJoin(base, path) == base \o path

Absent == {<<"<absent>", "<absent>">>}

NullData == [t |-> "null", d |-> {}, s |-> ""]

NoResponse == [success |-> FALSE, status_code |-> 0, data |-> NullData, error |-> None]

NoRequest == [method |-> None, url |-> None, params |-> Absent, json |-> Absent]

NoResult == [kind |-> "none", error |-> None, msg |-> None, response |-> NoResponse]

\* an exception of class err whose str() is msg
Raised(err, msg) == [kind |-> "raise", error |-> err, msg |-> msg, response |-> NoResponse]

Returned(resp) == [kind |-> "return", error |-> None, msg |-> None, response |-> resp]

\* request_kwargs built by Executor.execute
RequestKwargs(endpoint, params, json_data) ==
    LET url == UrlJoin(BaseUrl, PathStr(endpoint.path))
    IN  IF endpoint.method \in {"GET", "DELETE"}
        THEN [method |-> endpoint.method, url |-> url,
              params |-> IF params # {} /\ params # Absent THEN params ELSE Absent,
              json |-> Absent]
        ELSE [method |-> endpoint.method, url |-> url, params |-> Absent,
              json |-> IF json_data # {} /\ json_data # Absent THEN json_data
                       ELSE IF params # {} /\ params # Absent THEN params
                       ELSE Absent]

(***************************************************************************)
(* What the transport can answer to one attempt: a timeout                 *)
(* (httpx.TimeoutException), another httpx.RequestError, any other         *)
(* exception, or a response with a status and a body.                      *)
(***************************************************************************)
Statuses == {200, 302, 400, 401, 403, 429, 500}

WireBodies == {"", "{\"id\":\"7\",\"name\":\"widget\"}", "{\"error\":\"bad\"}",
               "{\"message\":\"no\"}", "{\"error\":{\"code\":1}}", "[1]", "oops"}

TransportOutcomes ==
    [kind : {"timeout", "request_error", "exception"}, status : {0}, body : {""}]
    \cup [kind : {"response"}, status : Statuses, body : WireBodies]

\* A JSON object found as the value of a key of a decoded body (a dict, not a
\* str; truthy).
ObjectValue == "<object {code: 1}>"

\* response.json(): the decoded value, or "invalid" for a body that is not JSON
JsonDecode(body) ==
    CASE body = "{\"id\":\"7\",\"name\":\"widget\"}" ->
             [t |-> "dict", d |-> {<<"id", "7">>, <<"name", "widget">>}, s |-> ""]
      [] body = "{\"error\":\"bad\"}" -> [t |-> "dict", d |-> {<<"error", "bad">>}, s |-> ""]
      [] body = "{\"message\":\"no\"}" -> [t |-> "dict", d |-> {<<"message", "no">>}, s |-> ""]
      [] body = "{\"error\":{\"code\":1}}" ->
             [t |-> "dict", d |-> {<<"error", ObjectValue>>}, s |-> ""]
      [] body = "[1]" -> [t |-> "list", d |-> {}, s |-> "[1]"]
      [] OTHER -> [t |-> "invalid", d |-> {}, s |-> ""]

ReasonPhrase(status) ==
    CASE status = 200 -> "OK"
      [] status = 302 -> "Found"
      [] status = 400 -> "Bad Request"
      [] status = 401 -> "Unauthorized"
      [] status = 403 -> "Forbidden"
      [] status = 429 -> "Too Many Requests"
      [] status = 500 -> "Internal Server Error"
      [] OTHER -> ""

ParseResponse(status, body) ==
    LET data == IF body = "" THEN NullData
                ELSE IF JsonDecode(body).t # "invalid" THEN JsonDecode(body)
                ELSE [t |-> "text", d |-> {}, s |-> body]
        success == 200 <= status /\ status < 400
        error == IF success THEN None
                 ELSE IF data.t = "dict"
                 THEN IF Truthy(DictGet(data.d, "error")) THEN DictGet(data.d, "error")
                      ELSE IF Truthy(DictGet(data.d, "message")) THEN DictGet(data.d, "message")
                      ELSE "HTTP " \o ToString(status)
                 ELSE "HTTP " \o ToString(status) \o ": " \o ReasonPhrase(status)
    IN  [success |-> success, status_code |-> status, data |-> data, error |-> error]

RECURSIVE Pow2(_)
Pow2(n) == IF n = 0 THEN 1 ELSE 2 * Pow2(n - 1)

\* str(e) of the exception the transport raised
TransportText(o) ==
    CASE o.kind = "timeout" -> "timed out"
      [] o.kind = "request_error" -> "connection failed"
      [] OTHER -> "boom"

\* APIResponse(...) validates its fields: error is Optional[str], so an error
\* taken from the body that is not a string is rejected (pydantic
\* ValidationError).
APIResponseValid(resp) == resp.error # ObjectValue

\* The outcome of one iteration of the loop of _execute_with_retries:
\*   act   "return" | "raise" (out of the function), "continue" | "fallthrough"
\*         (on to the next index), "break" (out of the loop)
\*   err   the exception raised, or the new last_error (msg: its message)
\*   sleep the time.sleep() calls of the iteration
Step(act, err, msg, sleep, response) ==
    [act |-> act, err |-> err, msg |-> msg, sleep |-> sleep, response |-> response]

\* except httpx.TimeoutException / except httpx.RequestError
OnTransient(o, att, maxr) ==
    Step(IF att < maxr - 1 THEN "continue" ELSE "fallthrough",
         IF o.kind = "timeout" THEN "TimeoutError" ELSE "ExecutionError",
         (IF o.kind = "timeout" THEN "Request timed out: " ELSE "Request failed: ")
            \o TransportText(o),
         IF att < maxr - 1 THEN <<Pow2(att)>> ELSE <<>>,
         NoResponse)

\* except Exception
OnException(text) ==
    Step("break", "ExecutionError", "Unexpected error: " \o text, <<>>, NoResponse)

\* The try block once client.request has returned a response.
OnResponse(o) ==
    CASE o.status = 429 ->
             Step("raise", "RateLimitError", "Rate limited. Retry after 60 seconds", <<>>,
                  NoResponse)
      [] o.status \in {401, 403} ->
             Step("raise", "AuthenticationError",
                  "Authentication failed: " \o ToString(o.status), <<>>, NoResponse)
      [] OTHER ->
             IF APIResponseValid(ParseResponse(o.status, o.body))
             THEN Step("return", None, None, <<>>, ParseResponse(o.status, o.body))
             ELSE OnException("1 validation error for APIResponse")

\* Iteration sleeping after every timeout, the last attempt's included.
Iteration_SleepAfterLast(o, att, maxr) ==
    CASE o.kind = "timeout" -> [OnTransient(o, att, maxr) EXCEPT !.sleep = <<Pow2(att)>>]
      [] o.kind = "request_error" -> OnTransient(o, att, maxr)
      [] o.kind = "exception" -> OnException(TransportText(o))
      [] OTHER -> OnResponse(o)

\* Iteration retrying a 429 like a transient failure.
Iteration_RetryRateLimit(o, att, maxr) ==
    CASE o.kind \in {"timeout", "request_error"} -> OnTransient(o, att, maxr)
      [] o.kind = "exception" -> OnException(TransportText(o))
      [] o.status = 429 -> [OnTransient(o, att, maxr) EXCEPT !.err = "RateLimitError"]
      [] OTHER -> OnResponse(o)

\* Iteration returning a parsed APIResponse for 401 and 403.
Iteration_ReturnAuthFailure(o, att, maxr) ==
    CASE o.kind \in {"timeout", "request_error"} -> OnTransient(o, att, maxr)
      [] o.kind = "exception" -> OnException(TransportText(o))
      [] o.status \in {401, 403} ->
             Step("return", None, None, <<>>, ParseResponse(o.status, o.body))
      [] OTHER -> OnResponse(o)

\* Iteration raising a transient failure at once, without retry.
Iteration_NoRetry(o, att, maxr) ==
    CASE o.kind \in {"timeout", "request_error"} ->
             [OnTransient(o, att, maxr) EXCEPT !.act = "raise", !.sleep = <<>>]
      [] o.kind = "exception" -> OnException(TransportText(o))
      [] OTHER -> OnResponse(o)

\* One iteration of the loop of _execute_with_retries, for loop index att.
Iteration(o, att, maxr) ==
    CASE o.kind \in {"timeout", "request_error"} -> OnTransient(o, att, maxr)
      [] o.kind = "exception" -> OnException(TransportText(o))
      [] OTHER -> OnResponse(o)

\* After the loop: raise last_error, or ExecutionError when there is none.
AfterLoop(err, msg) ==
    IF err # None THEN Raised(err, msg)
    ELSE Raised("ExecutionError", "Request failed after all retries")

\* Executor.execute up to the first attempt: request_kwargs are built and the
\* loop is entered; with max_retries = 0 the loop body never runs.
StartExecute(endpoint, params, caller) ==
    /\ ex_caller' = caller
    /\ ex_req' = RequestKwargs(endpoint, params, Absent)
    /\ attempt' = 0
    /\ last_error' = <<None, None>>
    /\ sleeps' = <<>>
    /\ requests' = <<>>
    /\ outcomes' = <<>>
    /\ IF max_retries > 0
       THEN ex_pc' = "running" /\ call_result' = NoResult
       ELSE ex_pc' = "done" /\ call_result' = AfterLoop(None, None)

\* A call that ends before Executor.execute is reached.
FailCall(err, msg, caller) ==
    /\ ex_caller' = caller
    /\ ex_req' = NoRequest
    /\ attempt' = 0
    /\ last_error' = <<None, None>>
    /\ sleeps' = <<>>
    /\ requests' = <<>>
    /\ outcomes' = <<>>
    /\ ex_pc' = "done"
    /\ call_result' = Raised(err, msg)

\* Client.call telling an unknown name like a missing discovery.
ClientCall_UnknownAsUninitialized(name, params, caller) ==
    /\ ex_args' = [name |-> name, params |-> params]
    /\ IF descriptor = NoDescriptor \/ ~has_executor \/ ~Found(endpoint_cache, name)
       THEN FailCall("SocketAgentError", "Client not initialized. Call discover() first.",
                     caller)
       ELSE StartExecute(FindEndpoint(endpoint_cache, name), params, caller)

\* Client.call(endpoint_name, **params)
ClientCall(name, params, caller) ==
    /\ ex_args' = [name |-> name, params |-> params]
    /\ IF descriptor = NoDescriptor \/ ~has_executor
       THEN FailCall("SocketAgentError", "Client not initialized. Call discover() first.",
                     caller)
       ELSE IF ~Found(endpoint_cache, name)
       THEN FailCall("ValidationError", "Endpoint not found: " \o name, caller)
       ELSE StartExecute(FindEndpoint(endpoint_cache, name), params, caller)

\* One attempt of _execute_with_retries: the request is issued, the transport
\* answers o, and the loop either goes on (after its sleep) or the call ends.
Attempt(o) ==
    LET it == Iteration(o, attempt, max_retries)
    IN  /\ ex_pc = "running"
        /\ requests' = Append(requests, ex_req)
        /\ outcomes' = Append(outcomes, o)
        /\ sleeps' = sleeps \o it.sleep
        /\ last_error' = IF it.act \in {"continue", "fallthrough", "break"}
                         THEN <<it.err, it.msg>> ELSE last_error
        /\ attempt' = IF it.act \in {"continue", "fallthrough"} THEN attempt + 1
                      ELSE attempt
        /\ CASE it.act = "return" ->
                    ex_pc' = "done" /\ call_result' = Returned(it.response)
             [] it.act = "raise" ->
                    ex_pc' = "done" /\ call_result' = Raised(it.err, it.msg)
             [] it.act = "break" ->
                    ex_pc' = "done" /\ call_result' = AfterLoop(it.err, it.msg)
             [] OTHER ->
                    IF attempt + 1 < max_retries
                    THEN ex_pc' = "running" /\ call_result' = NoResult
                    ELSE ex_pc' = "done" /\ call_result' = AfterLoop(it.err, it.msg)
        /\ UNCHANGED <<ex_caller, ex_args, ex_req>>

(***************************************************************************)
(* Client operations (client.py)                                           *)
(***************************************************************************)
\* No lookup has returned yet.
NoObservation ==
    [op |-> None, name |-> None, endpoint |-> NoEndpoint, keys |-> {}, raised |-> FALSE,
     old |-> EmptyCache, descriptor |-> NoDescriptor]

InitDisc ==
    /\ disc_pc = "idle"
    /\ disc_old = EmptyCache
    /\ disc_todo = <<>>
    /\ observed = NoObservation

\* No function has been given an input.
NotCalled == [kind |-> "none"]

InitFn ==
    /\ fetch_response = NotCalled
    /\ fetch_result = NotCalled
    /\ tools_args = NotCalled
    /\ tools_result = NotCalled
    /\ execute_args = NotCalled
    /\ execute_kwargs = NotCalled

\* Client.__init__ without auto_discover
InitTable ==
    /\ descriptor = NoDescriptor
    /\ endpoint_cache = EmptyCache
    /\ has_executor = FALSE
    /\ max_retries = DEFAULT_MAX_RETRIES

\* No error and no response yet.
NoError == [name |-> None, by |-> <<>>]

NoMwResponse == [success |-> FALSE, status_code |-> -1, data |-> None, error |-> None,
                 by |-> <<>>]

\* A client without middlewares, no call in progress.
InitMw ==
    /\ middlewares = <<>>
    /\ mw_pc = "idle"
    /\ mw_i = 0
    /\ mw_params = <<>>
    /\ mw_error = NoError
    /\ mw_response = NoMwResponse
    /\ mw_trace = <<>>

NoCred == [op |-> None, kind |-> "none", bearer |-> None]

\* A client without credentials.
InitCred ==
    /\ auth_token = None
    /\ has_identity = FALSE
    /\ executor_auth_token = None
    /\ cred_result = NoCred
    /\ logged_out = FALSE

InitSide == InitMw /\ InitCred

InitClient ==
    /\ InitTable
    /\ InitDisc
    /\ InitFn
    /\ InitSide

InitExec ==
    /\ ex_pc = "idle"
    /\ ex_caller = None
    /\ ex_args = [name |-> None, params |-> Absent]
    /\ ex_req = NoRequest
    /\ attempt = 0
    /\ last_error = <<None, None>>
    /\ sleeps = <<>>
    /\ requests = <<>>
    /\ outcomes = <<>>
    /\ call_result = NoResult

\* Client.discover() when fetch_descriptor returns the validated descriptor d:
\* the descriptor is stored, a new Executor (default max_retries) is built and
\* the endpoint cache is rebuilt.
Discover(d) ==
    /\ ex_pc = "idle"
    /\ disc_pc = "idle"
    /\ descriptor' = d
    /\ has_executor' = TRUE
    /\ max_retries' = DEFAULT_MAX_RETRIES
    /\ endpoint_cache' = BuildEndpointCache(d)
    /\ UNCHANGED <<discVars, fnVars, sideVars, execVars, idVars, agentVars>>

\* Client.discover() when fetch_descriptor raises DiscoveryError: the assignment
\* to self.descriptor is never reached.
DiscoverFails ==
    /\ ex_pc = "idle"
    /\ UNCHANGED vars

\* The writes of one iteration of the loop of _build_endpoint_cache, in order.
Writes(e) ==
    (IF Truthy(e.operationId) THEN <<(<<e.operationId, e>>)>> ELSE <<>>)
    \o <<(<<GenerateEndpointName(e), e>>), (<<MethodPathKey(e), e>>)>>

\* The writes of the whole loop, in order.
RECURSIVE AllWrites(_)
AllWrites(eps) == IF eps = <<>> THEN <<>> ELSE Writes(Head(eps)) \o AllWrites(Tail(eps))

\* Client.discover() step by step, as another thread of the application sees it.
\* self.descriptor = fetch_descriptor(...)
DiscoverAssign(d) ==
    /\ disc_pc = "idle"
    /\ descriptor' = d
    /\ disc_old' = endpoint_cache
    /\ disc_pc' = "executor"
    /\ UNCHANGED <<endpoint_cache, has_executor, max_retries, disc_todo, observed,
                   fnVars, sideVars, execVars, idVars, agentVars>>

\* self.executor = Executor(...)
DiscoverExecutor ==
    /\ disc_pc = "executor"
    /\ has_executor' = TRUE
    /\ max_retries' = DEFAULT_MAX_RETRIES
    /\ disc_pc' = "clear"
    /\ UNCHANGED <<descriptor, endpoint_cache, disc_old, disc_todo, observed,
                   fnVars, sideVars, execVars, idVars, agentVars>>

\* _build_endpoint_cache without the clear().
DiscoverClear_KeepsTable ==
    /\ disc_pc = "clear"
    /\ disc_todo' = AllWrites(descriptor)
    /\ disc_pc' = "fill"
    /\ UNCHANGED <<descriptor, endpoint_cache, has_executor, max_retries, disc_old,
                   observed, fnVars, sideVars, execVars, idVars, agentVars>>

\* _build_endpoint_cache: self._endpoint_cache.clear()
DiscoverClear ==
    /\ disc_pc = "clear"
    /\ endpoint_cache' = EmptyCache
    /\ disc_todo' = AllWrites(descriptor)
    /\ disc_pc' = "fill"
    /\ UNCHANGED <<descriptor, has_executor, max_retries, disc_old, observed,
                   fnVars, sideVars, execVars, idVars, agentVars>>

\* _build_endpoint_cache: one self._endpoint_cache[key] = endpoint
DiscoverWrite ==
    /\ disc_pc = "fill"
    /\ disc_todo # <<>>
    /\ endpoint_cache' = Put(endpoint_cache, Head(disc_todo)[1], Head(disc_todo)[2])
    /\ disc_todo' = Tail(disc_todo)
    /\ UNCHANGED <<descriptor, has_executor, max_retries, disc_pc, disc_old, observed,
                   fnVars, sideVars, execVars, idVars, agentVars>>

\* discover() returns the descriptor.
DiscoverReturn ==
    /\ disc_pc = "fill"
    /\ disc_todo = <<>>
    /\ disc_pc' = "idle"
    /\ UNCHANGED <<descriptor, endpoint_cache, has_executor, max_retries, disc_old,
                   disc_todo, observed, fnVars, sideVars, execVars, idVars, agentVars>>

\* Client.get_endpoint(name) called by another thread.
GetEndpoint(name) ==
    /\ observed' = [op |-> "get_endpoint", name |-> name,
                    endpoint |-> FindEndpoint(endpoint_cache, name), keys |-> {},
                    raised |-> FALSE,
                    old |-> IF disc_pc = "idle" THEN endpoint_cache ELSE disc_old,
                    descriptor |-> descriptor]
    /\ UNCHANGED <<descriptor, endpoint_cache, has_executor, max_retries, disc_pc,
                   disc_old, disc_todo, fnVars, sideVars, execVars, idVars, agentVars>>

\* Client.list_endpoints() called by another thread.
ListEndpoints ==
    /\ observed' = [op |-> "list_endpoints", name |-> None, endpoint |-> NoEndpoint,
                    keys |-> IF descriptor = NoDescriptor THEN {}
                             ELSE DOMAIN endpoint_cache,
                    raised |-> descriptor = NoDescriptor,
                    old |-> IF disc_pc = "idle" THEN endpoint_cache ELSE disc_old,
                    descriptor |-> descriptor]
    /\ UNCHANGED <<descriptor, endpoint_cache, has_executor, max_retries, disc_pc,
                   disc_old, disc_todo, fnVars, sideVars, execVars, idVars, agentVars>>

\* An Executor configured with max_retries = n (Executor.__init__).
Configure(n) ==
    /\ ex_pc = "idle"
    /\ has_executor
    /\ max_retries' = n
    /\ UNCHANGED <<descriptor, endpoint_cache, has_executor, discVars, fnVars, sideVars,
                   execVars, idVars, agentVars>>

\* Client.call(name, **params) called by the application.
Call(name, params) ==
    /\ ex_pc = "idle"
    /\ ClientCall(name, params, "client")
    /\ UNCHANGED <<clientVars, idVars, agentVars>>

\* One attempt of the running call.
ExecAttempt(o) ==
    /\ Attempt(o)
    /\ UNCHANGED <<clientVars, idVars, agentVars>>

\* The caller of Client.call has its result (or exception).
CallReturns ==
    /\ ex_pc = "done"
    /\ ex_caller = "client"
    /\ ex_pc' = "idle"
    /\ ex_caller' = None
    /\ ex_args' = [name |-> None, params |-> Absent]
    /\ ex_req' = NoRequest
    /\ attempt' = 0
    /\ last_error' = <<None, None>>
    /\ sleeps' = <<>>
    /\ requests' = <<>>
    /\ outcomes' = <<>>
    /\ call_result' = NoResult
    /\ UNCHANGED <<clientVars, idVars, agentVars>>

GetItem == [path |-> <<"items", "{id}">>, method |-> "GET", operationId |-> "get_item"]

ListUsers == [path |-> <<"users">>, method |-> "GET", operationId |-> "list_users"]

CreateUser == [path |-> <<"users">>, method |-> "POST", operationId |-> None]

\* The descriptors, endpoint names and parameters the executor is driven with.
ExecDescriptors == {<<GetItem>>, <<ListUsers, CreateUser>>}

CallNames == {"get_item", "list_users", "create_users", "nope"}

CallParams == {{}, {<<"id", "7">>}}

(***************************************************************************)
(* TokenManager (identity.py).  expires_at = 0 stands for None: is_expired *)
(* tests "not self.expires_at", which holds of both.                       *)
(***************************************************************************)
ExpiryBuffer == 30

AccessTokens == {"", "a1", "a2"}

RefreshTokens == {"", "r1"}

ExpiresIns == {30, 60}

\* TokenResponse: what the identity service issues on login and refresh
TokenResponses ==
    [access_token : AccessTokens, refresh_token : RefreshTokens, expires_in : ExpiresIns]

NoTokenResponse == [access_token |-> None, refresh_token |-> None, expires_in |-> 0]

NotIssued == [at |-> 0, expires_in |-> 0]

\* is_expired without the safety buffer.
IsExpired_NoBuffer(exp, t) == IF exp = 0 THEN TRUE ELSE t > exp

\* TokenManager.is_expired at time t
IsExpired(exp, t) == IF exp = 0 THEN TRUE ELSE t > exp - ExpiryBuffer

\* TokenManager.has_valid_token at time t
HasValidToken(acc, exp, t) == acc # None /\ ~IsExpired(exp, t)

\* TokenManager.set_tokens
SetTokens(tr) ==
    /\ access_token' = tr.access_token
    /\ refresh_token' = tr.refresh_token
    /\ expires_at' = now + tr.expires_in
    /\ issued' = [at |-> now, expires_in |-> tr.expires_in]

\* TokenManager.clear
Clear ==
    /\ access_token' = None
    /\ refresh_token' = None
    /\ expires_at' = 0
    /\ issued' = NotIssued

KeepTokens == UNCHANGED <<access_token, refresh_token, expires_at, issued>>

(***************************************************************************)
(* IdentityClient (identity.py).  Each operation is a coroutine that       *)
(* suspends at its one network call: a task runs from the call of the      *)
(* operation to the sending of the request in one step, and from the       *)
(* answer to the end of the operation in another.  Tasks of one event loop *)
(* interleave at these points.                                             *)
(***************************************************************************)
Tasks == {"t1", "t2"}

\* What the identity service (or the transport) answers to a request.
IdOutcomes ==
    [kind : {"response"}, status : {200}, token : TokenResponses]
    \cup [kind : {"response"}, status : {401, 500}, token : {NoTokenResponse}]
    \cup [kind : {"request_error", "exception"}, status : {0}, token : {NoTokenResponse}]

NoOutcome == [kind |-> "none", status |-> 0, token |-> NoTokenResponse]

NoPre == [valid |-> FALSE, access |-> None, refresh |-> None]

IdResult(op, kind, value, error, resp) ==
    [op |-> op, kind |-> kind, value |-> value, error |-> error, resp |-> resp]

NoIdResult == IdResult(None, "none", None, None, NoOutcome)

InitId ==
    /\ now = 1
    /\ access_token = None
    /\ refresh_token = None
    /\ expires_at = 0
    /\ issued = NotIssued
    /\ id_pc = [t \in Tasks |-> "idle"]
    /\ id_sent = [t \in Tasks |-> None]
    /\ id_calls = [t \in Tasks |-> <<>>]
    /\ id_pre = [t \in Tasks |-> NoPre]
    /\ id_result = [t \in Tasks |-> NoIdResult]

\* The operation of task t begins: what it finds is recorded.
Begin(t) ==
    /\ id_pc[t] = "idle"
    /\ id_pre' = [id_pre EXCEPT ![t] =
                     [valid |-> HasValidToken(access_token, expires_at, now),
                      access |-> access_token, refresh |-> refresh_token]]

\* Task t suspends at the request to path.
Send(t, pc, path) ==
    /\ id_pc' = [id_pc EXCEPT ![t] = pc]
    /\ id_sent' = [id_sent EXCEPT ![t] = refresh_token]
    /\ id_calls' = [id_calls EXCEPT ![t] = <<path>>]
    /\ id_result' = [id_result EXCEPT ![t] = NoIdResult]

\* The operation op of task t ends without (further) network call.
Finish(t, op, kind, value, error, resp) ==
    /\ id_pc' = [id_pc EXCEPT ![t] = "idle"]
    /\ id_sent' = [id_sent EXCEPT ![t] = None]
    /\ id_result' = [id_result EXCEPT ![t] = IdResult(op, kind, value, error, resp)]

NoCalls(t) == id_calls' = [id_calls EXCEPT ![t] = <<>>]

\* time.time() advances.
Tick(limit) ==
    /\ now < limit
    /\ now' = now + 1
    /\ UNCHANGED <<access_token, refresh_token, expires_at, issued, id_pc, id_sent,
                   id_calls, id_pre, id_result>>
    /\ UNCHANGED <<clientVars, execVars, agentVars>>

\* login(): the request is sent.
LoginStart(t) ==
    /\ Begin(t)
    /\ Send(t, "login", "/v1/auth/login")
    /\ KeepTokens
    /\ UNCHANGED <<now, clientVars, execVars, agentVars>>

\* How login() and refresh_token() end on the answer o:
\*   200 sets the tokens and returns; 401 raises AuthenticationError (after
\*   clearing the tokens, for refresh); another status raises
\*   AuthenticationError; httpx.RequestError becomes SocketAgentError; any other
\*   exception propagates.
AnswerError(o) ==
    CASE o.kind = "response" /\ o.status = 200 -> None
      [] o.kind = "response" -> "AuthenticationError"
      [] o.kind = "request_error" -> "SocketAgentError"
      [] OTHER -> "Exception"

\* login(): the answer arrives.
LoginResponse(t, o) ==
    /\ id_pc[t] = "login"
    /\ IF AnswerError(o) = None THEN SetTokens(o.token) ELSE KeepTokens
    /\ IF AnswerError(o) = None
       THEN Finish(t, "login", "return", o.token.access_token, None, o)
       ELSE Finish(t, "login", "raise", None, AnswerError(o), o)
    /\ UNCHANGED <<now, id_calls, id_pre, clientVars, execVars, agentVars>>

\* refresh_token(), called directly: without a refresh token it raises at
\* once, otherwise the request is sent.
RefreshStart(t) ==
    /\ Begin(t)
    /\ IF ~Truthy(refresh_token)
       THEN Finish(t, "refresh", "raise", None, "AuthenticationError", NoOutcome) /\ NoCalls(t)
       ELSE Send(t, "refresh", "/v1/auth/refresh")
    /\ KeepTokens
    /\ UNCHANGED <<now, clientVars, execVars, agentVars>>

\* EnsureDecision that refreshes without looking at the stored access token.
EnsureDecision_AlwaysRefresh(acc, ref, exp, t) == IF Truthy(ref) THEN "refresh" ELSE "raise"

\* What ensure_valid_token() does first: "return" the valid token, "refresh",
\* or "raise" AuthenticationError.
EnsureDecision(acc, ref, exp, t) ==
    IF HasValidToken(acc, exp, t) THEN "return"
    ELSE IF Truthy(ref) THEN "refresh"
    ELSE "raise"

\* ensure_valid_token() up to its first suspension.
EnsureStart(t) ==
    /\ Begin(t)
    /\ LET dec == EnsureDecision(access_token, refresh_token, expires_at, now)
       IN  CASE dec = "return" ->
                    Finish(t, "ensure", "return", access_token, None, NoOutcome) /\ NoCalls(t)
             [] dec = "refresh" ->
                    Send(t, "ensure", "/v1/auth/refresh")
             [] OTHER ->
                    Finish(t, "ensure", "raise", None, "AuthenticationError", NoOutcome)
                    /\ NoCalls(t)
    /\ KeepTokens
    /\ UNCHANGED <<now, clientVars, execVars, agentVars>>

\* What ensure_valid_token() does once refresh_token() has returned and left
\* the access token acc: it returns acc if acc is truthy and raises otherwise.
EnsureAfterRefresh(acc) == IF Truthy(acc) THEN "return" ELSE "raise"

\* RefreshResponse clearing the tokens on every failure of the refresh.
RefreshResponse_ClearsOnFailure(t, o) ==
    /\ id_pc[t] \in {"refresh", "ensure"}
    /\ IF AnswerError(o) = None THEN SetTokens(o.token) ELSE Clear
    /\ IF AnswerError(o) # None
       THEN Finish(t, id_pc[t], "raise", None, AnswerError(o), o)
       ELSE IF id_pc[t] = "refresh"
       THEN Finish(t, "refresh", "return", o.token.access_token, None, o)
       ELSE IF EnsureAfterRefresh(o.token.access_token) = "return"
       THEN Finish(t, "ensure", "return", o.token.access_token, None, o)
       ELSE Finish(t, "ensure", "raise", None, "AuthenticationError", o)
    /\ UNCHANGED <<now, id_calls, id_pre, clientVars, execVars, agentVars>>

\* RefreshResponse leaving the tokens in place on a 401.
RefreshResponse_KeepsOn401(t, o) ==
    /\ id_pc[t] \in {"refresh", "ensure"}
    /\ IF AnswerError(o) = None THEN SetTokens(o.token) ELSE KeepTokens
    /\ IF AnswerError(o) # None
       THEN Finish(t, id_pc[t], "raise", None, AnswerError(o), o)
       ELSE IF id_pc[t] = "refresh"
       THEN Finish(t, "refresh", "return", o.token.access_token, None, o)
       ELSE IF EnsureAfterRefresh(o.token.access_token) = "return"
       THEN Finish(t, "ensure", "return", o.token.access_token, None, o)
       ELSE Finish(t, "ensure", "raise", None, "AuthenticationError", o)
    /\ UNCHANGED <<now, id_calls, id_pre, clientVars, execVars, agentVars>>

\* The answer to a refresh request arrives, for refresh_token() called directly
\* (pc "refresh") or from ensure_valid_token() (pc "ensure").
RefreshResponse(t, o) ==
    /\ id_pc[t] \in {"refresh", "ensure"}
    /\ CASE AnswerError(o) = None -> SetTokens(o.token)
         [] o.kind = "response" /\ o.status = 401 -> Clear
         [] OTHER -> KeepTokens
    /\ IF AnswerError(o) # None
       THEN Finish(t, id_pc[t], "raise", None, AnswerError(o), o)
       ELSE IF id_pc[t] = "refresh"
       THEN Finish(t, "refresh", "return", o.token.access_token, None, o)
       ELSE IF EnsureAfterRefresh(o.token.access_token) = "return"
       THEN Finish(t, "ensure", "return", o.token.access_token, None, o)
       ELSE Finish(t, "ensure", "raise", None, "AuthenticationError", o)
    /\ UNCHANGED <<now, id_calls, id_pre, clientVars, execVars, agentVars>>

\* logout() on entry: TRUE when it returns at once ("already logged out").
LogoutReturnsEarly(ref) == ~Truthy(ref)

\* logout() up to its first suspension.
LogoutStart(t) ==
    /\ Begin(t)
    /\ IF LogoutReturnsEarly(refresh_token)
       THEN Finish(t, "logout", "return", None, None, NoOutcome) /\ NoCalls(t)
       ELSE Send(t, "logout", "/v1/auth/logout")
    /\ KeepTokens
    /\ UNCHANGED <<now, clientVars, execVars, agentVars>>

\* logout(): the answer arrives.  The response status is ignored, an
\* httpx.RequestError is swallowed, any other exception propagates; the finally
\* clause clears the tokens in every case.
LogoutResponse(t, o) ==
    /\ id_pc[t] = "logout"
    /\ Clear
    /\ IF o.kind = "exception"
       THEN Finish(t, "logout", "raise", None, "Exception", o)
       ELSE Finish(t, "logout", "return", None, None, o)
    /\ UNCHANGED <<now, id_calls, id_pre, clientVars, execVars, agentVars>>

(***************************************************************************)
(* SocketAgent (agent.py)                                                  *)
(***************************************************************************)
HistoryLimit == 20

\* A message of the conversation; tool_calls is <<>> and tool_call_id is None
\* where the dict has no such key.
Msg(role, content, tool_calls, tool_call_id) ==
    [role |-> role, content |-> content, tool_calls |-> tool_calls,
     tool_call_id |-> tool_call_id]

SystemPrompt == "system prompt"

UserMsg(q) == Msg("user", q, <<>>, None)

AssistantMsg(c) == Msg("assistant", c, <<>>, None)

Questions == {"q1"}

\* The tool calls an LLM response may carry: an id, a function name and the
\* arguments, JSON-encoded text (form "str") or already a dict (form "dict").
ToolCalls ==
    { [id |-> "id1", name |-> "list_users", form |-> "str", text |-> "{}", dict |-> {}],
      [id |-> "id2", name |-> "get_item", form |-> "dict", text |-> "",
       dict |-> {<<"id", "7">>}],
      [id |-> "id1", name |-> "nope", form |-> "str", text |-> "{}", dict |-> {}],
      [id |-> "id2", name |-> "list_users", form |-> "str", text |-> "oops", dict |-> {}] }

\* What complete_with_tools can answer: a response with content and tool
\* calls, or an exception.  For the first completion of an agent that has
\* never had a provider, self.llm_provider may also fail to create one
\* ("provider_error": no completion is made).
FirstCompletions ==
    [kind : {"response"}, content : {"", "c1"}, tool_calls : {<<>>}]
    \cup [kind : {"response"}, content : {""},
          tool_calls : SeqsUpTo(ToolCalls, MaxToolCalls) \ {<<>>}]
    \cup [kind : {"raise"}, content : {"llm failed"}, tool_calls : {<<>>}]
    \cup [kind : {"provider_error"}, content : {"Unsupported LLM provider: none"},
          tool_calls : {<<>>}]

SecondCompletions ==
    [kind : {"response"}, content : {"a1"}, tool_calls : {<<>>}]
    \cup [kind : {"response"}, content : {"a2"},
          tool_calls : {<<CHOOSE tc \in ToolCalls : tc.name = "nope">>}]
    \cup [kind : {"raise"}, content : {"llm failed"}, tool_calls : {<<>>}]

NoCompletion == [kind |-> "none", content |-> "", tool_calls |-> <<>>]

\* The answers of the target service while an ask runs.
AgentOutcomes ==
    { o \in TransportOutcomes :
        \/ o.kind = "timeout"
        \/ o.kind = "response" /\ o.status = 200 /\ o.body = "{\"id\":\"7\",\"name\":\"widget\"}"
        \/ o.kind = "response" /\ o.status = 500 /\ o.body = "{\"error\":\"bad\"}"
        \/ o.kind = "response" /\ o.status = 429 /\ o.body = "" }

\* json.loads(arguments) for text arguments: <<TRUE, dict>>, or <<FALSE, message>>
ParseArguments(tc) ==
    IF tc.form = "dict" THEN <<TRUE, tc.dict, "">>
    ELSE CASE tc.text = "{}" -> <<TRUE, {}, "">>
           [] tc.text = "{\"id\":\"7\"}" -> <<TRUE, {<<"id", "7">>}, "">>
           [] OTHER -> <<FALSE, {}, "Expecting value: line 1 column 1 (char 0)">>

\* The record _execute_tool_call returns.
ToolSuccess(resp) ==
    [success |-> TRUE, data |-> resp.data, error |-> None, status_code |-> resp.status_code]

ToolFailure(error, status) ==
    [success |-> FALSE, data |-> NullData, error |-> error, status_code |-> status]

\* _execute_tool_call once Client.call has returned or raised
ToolResult(cr) ==
    IF cr.kind = "raise" THEN ToolFailure(cr.msg, 0)
    ELSE IF cr.response.success THEN ToolSuccess(cr.response)
    ELSE ToolFailure(cr.response.error, cr.response.status_code)

\* json.dumps of decoded response data
DataJson(data) ==
    CASE data.t = "null" -> "null"
      [] data.t = "text" -> "\"" \o data.s \o "\""
      [] data.t = "list" -> data.s
      [] data.d = {<<"id", "7">>, <<"name", "widget">>} -> "{\"id\": \"7\", \"name\": \"widget\"}"
      [] data.d = {<<"error", "bad">>} -> "{\"error\": \"bad\"}"
      [] data.d = {<<"message", "no">>} -> "{\"message\": \"no\"}"
      [] data.d = {<<"error", ObjectValue>>} -> "{\"error\": {\"code\": 1}}"
      [] OTHER -> "{}"

\* json.dumps(tool_result)
JsonDumps(r) ==
    IF r.success
    THEN "{\"success\": true, \"data\": " \o DataJson(r.data) \o ", \"status_code\": "
         \o ToString(r.status_code) \o "}"
    ELSE "{\"success\": false, \"error\": \"" \o r.error \o "\", \"status_code\": "
         \o ToString(r.status_code) \o "}"

\* self.conversation_history after extend([...]) and the trim to the last 20
\* (UpdateHistory); UpdateHistory_NoTrim forgets the trim.
UpdateHistory_NoTrim(history, question, result) ==
    history \o <<[role |-> "user", content |-> question, tool_calls |-> <<>>,
                  tool_call_id |-> None],
                 [role |-> "assistant", content |-> result, tool_calls |-> <<>>,
                  tool_call_id |-> None]>>

LastN(seq, n) == IF Len(seq) > n THEN SubSeq(seq, Len(seq) - n + 1, Len(seq)) ELSE seq

\* UpdateHistory keeping the 20 oldest entries instead of the 20 newest.
UpdateHistory_KeepsOldest(history, question, result) ==
    SubSeq(history \o <<UserMsg(question), AssistantMsg(result)>>, 1,
           IF Len(history) + 2 > HistoryLimit THEN HistoryLimit ELSE Len(history) + 2)

UpdateHistory(history, question, result) ==
    LastN(history \o <<UserMsg(question), AssistantMsg(result)>>, HistoryLimit)

\* ToolMessages whose tool messages carry no tool_call_id.
ToolMessages_Untagged(first, results) ==
    <<Msg("assistant", IF Truthy(first.content) THEN first.content ELSE "",
          first.tool_calls, None)>>
    \o [i \in 1..Len(first.tool_calls) |-> Msg("tool", JsonDumps(results[i]), <<>>, None)]

\* The message list ask() sends to the second completion.
ToolMessages(first, results) ==
    <<Msg("assistant", IF Truthy(first.content) THEN first.content ELSE "",
          first.tool_calls, None)>>
    \o [i \in 1..Len(first.tool_calls) |->
            Msg("tool", JsonDumps(results[i]), <<>>, first.tool_calls[i].id)]

NoAskResult == [kind |-> "none", value |-> None, error |-> None, msg |-> None]

\* The history left by k earlier asks of "q0", each answered "a0".
RECURSIVE History0(_)
History0(k) ==
    IF k = 0 THEN <<>> ELSE UpdateHistory(History0(k - 1), "q0", "a0")

PriorAsks == {0, 9, 10}

InitAgent ==
    /\ conversation_history = <<>>
    /\ ask_pc = "idle"
    /\ ask_question = None
    /\ ask_messages = <<>>
    /\ ask_first = NoCompletion
    /\ ask_second = NoCompletion
    /\ ask_next = 0
    /\ ask_tool_results = <<>>
    /\ ask_hist0 = <<>>
    /\ llm_calls = 0
    /\ exec_calls = 0
    /\ ask_result = NoAskResult
    /\ ask_count = 0

\* ask() ends: the history is updated and the result returned.
AskSucceeds(question, result) ==
    /\ conversation_history' = UpdateHistory(conversation_history, question, result)
    /\ ask_result' = [kind |-> "return", value |-> result, error |-> None, msg |-> None]
    /\ ask_pc' = "done"

\* AskFails letting the exception through as it is.
AskFails_Unwrapped(msg) ==
    /\ conversation_history' = conversation_history
    /\ ask_result' = [kind |-> "raise", value |-> None, error |-> "Exception", msg |-> msg]
    /\ ask_pc' = "done"

\* AskFails having recorded the question before the failure.
AskFails_KeepsQuestion(msg) ==
    /\ conversation_history' = Append(conversation_history, UserMsg(ask_question'))
    /\ ask_result' = [kind |-> "raise", value |-> None, error |-> "SocketAgentError",
                      msg |-> "Failed to process question: " \o msg]
    /\ ask_pc' = "done"

\* ask() ends in its except clause: SocketAgentError wraps the exception.
AskFails(msg) ==
    /\ conversation_history' = conversation_history
    /\ ask_result' = [kind |-> "raise", value |-> None, error |-> "SocketAgentError",
                      msg |-> "Failed to process question: " \o msg]
    /\ ask_pc' = "done"

\* ask(question) up to the end of the first completion c: without tool calls
\* the ask ends here, with tool calls their execution begins.
AskStart(question, c) ==
    /\ ask_pc = "idle"
    /\ ex_pc = "idle"
    /\ ask_count < MaxAsks
    /\ c.kind = "provider_error" => (ask_count = 0 /\ conversation_history = <<>>)
    /\ ask_count' = ask_count + 1
    /\ ask_question' = question
    /\ ask_hist0' = conversation_history
    /\ ask_messages' = <<Msg("system", SystemPrompt, <<>>, None)>> \o conversation_history
                       \o <<UserMsg(question)>>
    /\ ask_first' = c
    /\ ask_second' = NoCompletion
    /\ llm_calls' = IF c.kind = "provider_error" THEN 0 ELSE 1
    /\ exec_calls' = 0
    /\ ask_tool_results' = <<>>
    /\ CASE c.kind \in {"raise", "provider_error"} -> AskFails(c.content) /\ ask_next' = 0
         [] c.tool_calls = <<>> -> AskSucceeds(question, c.content) /\ ask_next' = 0
         [] OTHER -> /\ ask_pc' = "tools"
                     /\ ask_next' = 1
                     /\ ask_result' = NoAskResult
                     /\ UNCHANGED conversation_history
    /\ UNCHANGED <<clientVars, execVars, idVars>>

\* NextToolCall taking the tool calls last to first.
NextToolCall_Reversed(first, next) == first.tool_calls[Len(first.tool_calls) - next + 1]

\* for tool_call in response.tool_calls: the tool call of iteration next
NextToolCall(first, next) == first.tool_calls[next]

\* _execute_tool_call for the next tool call, up to the first HTTP attempt:
\* the arguments are parsed and Client.call is entered.
AskToolCall ==
    /\ ask_pc = "tools"
    /\ ex_pc = "idle"
    /\ ask_next <= Len(ask_first.tool_calls)
    /\ LET tc == NextToolCall(ask_first, ask_next)
           args == ParseArguments(tc)
       IN  IF args[1]
           THEN /\ ClientCall(tc.name, args[2], "agent")
                /\ exec_calls' = IF descriptor # NoDescriptor /\ has_executor
                                    /\ Found(endpoint_cache, tc.name)
                                 THEN exec_calls + 1 ELSE exec_calls
           ELSE /\ ex_args' = [name |-> tc.name, params |-> Absent]
                /\ FailCall("JSONDecodeError", args[3], "agent")
                /\ exec_calls' = exec_calls
    /\ UNCHANGED <<conversation_history, ask_pc, ask_question, ask_messages, ask_first,
                   ask_second, ask_next, ask_tool_results, ask_hist0, llm_calls,
                   ask_result, ask_count>>
    /\ UNCHANGED <<clientVars, idVars>>

\* AskToolReturn letting an exception of the call end the ask.
AskToolReturn_AbortOnFailure ==
    /\ ask_pc = "tools"
    /\ ex_pc = "done"
    /\ ex_caller = "agent"
    /\ IF call_result.kind = "raise"
       THEN /\ AskFails(call_result.msg)
            /\ UNCHANGED <<ask_tool_results, ask_next>>
       ELSE /\ ask_tool_results' = Append(ask_tool_results, ToolResult(call_result))
            /\ ask_next' = ask_next + 1
            /\ UNCHANGED <<conversation_history, ask_pc, ask_result>>
    /\ ex_pc' = "idle"
    /\ ex_caller' = None
    /\ ex_args' = [name |-> None, params |-> Absent]
    /\ ex_req' = NoRequest
    /\ attempt' = 0
    /\ last_error' = <<None, None>>
    /\ sleeps' = <<>>
    /\ requests' = <<>>
    /\ outcomes' = <<>>
    /\ call_result' = NoResult
    /\ UNCHANGED <<ask_question, ask_messages, ask_first, ask_second, ask_hist0, llm_calls,
                   exec_calls, ask_count>>
    /\ UNCHANGED <<clientVars, idVars>>

\* _execute_tool_call returns the record of the finished call.
AskToolReturn ==
    /\ ask_pc = "tools"
    /\ ex_pc = "done"
    /\ ex_caller = "agent"
    /\ ask_tool_results' = Append(ask_tool_results, ToolResult(call_result))
    /\ ask_next' = ask_next + 1
    /\ ex_pc' = "idle"
    /\ ex_caller' = None
    /\ ex_args' = [name |-> None, params |-> Absent]
    /\ ex_req' = NoRequest
    /\ attempt' = 0
    /\ last_error' = <<None, None>>
    /\ sleeps' = <<>>
    /\ requests' = <<>>
    /\ outcomes' = <<>>
    /\ call_result' = NoResult
    /\ UNCHANGED <<conversation_history, ask_pc, ask_question, ask_messages, ask_first,
                   ask_second, ask_hist0, llm_calls, exec_calls, ask_result, ask_count>>
    /\ UNCHANGED <<clientVars, idVars>>

\* AskSecond starting another round when the second completion carries tool
\* calls.
AskSecond_AnotherRound(c) ==
    /\ ask_pc = "tools"
    /\ ex_pc = "idle"
    /\ ask_next > Len(ask_first.tool_calls)
    /\ ask_messages' = ask_messages \o ToolMessages(ask_first, ask_tool_results)
    /\ llm_calls' = llm_calls + 1
    /\ IF c.kind = "response" /\ c.tool_calls # <<>>
       THEN /\ ask_first' = c
            /\ ask_next' = 1
            /\ ask_tool_results' = <<>>
            /\ UNCHANGED <<ask_second, ask_pc, ask_result, conversation_history>>
       ELSE /\ ask_second' = c
            /\ IF c.kind = "raise" THEN AskFails(c.content)
               ELSE AskSucceeds(ask_question, c.content)
            /\ UNCHANGED <<ask_first, ask_next, ask_tool_results>>
    /\ UNCHANGED <<ask_question, ask_hist0, exec_calls, ask_count>>
    /\ UNCHANGED <<clientVars, execVars, idVars>>

\* After the last tool call: the assistant and tool messages are appended and
\* the second completion c is requested; its content is the result.
AskSecond(c) ==
    /\ ask_pc = "tools"
    /\ ex_pc = "idle"
    /\ ask_next > Len(ask_first.tool_calls)
    /\ ask_messages' = ask_messages \o ToolMessages(ask_first, ask_tool_results)
    /\ ask_second' = c
    /\ llm_calls' = llm_calls + 1
    /\ IF c.kind = "raise" THEN AskFails(c.content) ELSE AskSucceeds(ask_question, c.content)
    /\ UNCHANGED <<ask_question, ask_first, ask_next, ask_tool_results, ask_hist0,
                   exec_calls, ask_count>>
    /\ UNCHANGED <<clientVars, execVars, idVars>>

\* The caller of ask() has its result (or exception).
AskReturns ==
    /\ ask_pc = "done"
    /\ ask_pc' = "idle"
    /\ ask_question' = None
    /\ ask_messages' = <<>>
    /\ ask_first' = NoCompletion
    /\ ask_second' = NoCompletion
    /\ ask_next' = 0
    /\ ask_tool_results' = <<>>
    /\ ask_hist0' = <<>>
    /\ llm_calls' = 0
    /\ exec_calls' = 0
    /\ ask_result' = NoAskResult
    /\ UNCHANGED <<conversation_history, ask_count>>
    /\ UNCHANGED <<clientVars, execVars, idVars>>

\* reset_conversation()
ResetConversation ==
    /\ ask_pc = "idle"
    /\ conversation_history' = <<>>
    /\ UNCHANGED <<ask_pc, ask_question, ask_messages, ask_first, ask_second, ask_next,
                   ask_tool_results, ask_hist0, llm_calls, exec_calls, ask_result,
                   ask_count>>
    /\ UNCHANGED <<clientVars, execVars, idVars>>

(***************************************************************************)
(* Specifications                                                          *)
(***************************************************************************)
(***************************************************************************)
(* DescriptorFetcher.fetch (discovery.py) as a function of what the        *)
(* transport answers.  The body of a 200 answer is a text that is not      *)
(* JSON, a JSON value that is not an object, or a JSON object with the     *)
(* keys name, description, baseUrl and endpoints, each present or not.     *)
(* Every endpoint of a payload carries a summary.  A path is the string    *)
(* of the payload here.                                                    *)
(***************************************************************************)
\* a key that the payload does not have
Missing == "<missing>"

PayloadPaths == {"", "/users", "/items"}

PayloadMethods == {"GET", "POST", "get", Missing}

PayloadEndpoints == [path : PayloadPaths, method : PayloadMethods]

Body(json, name, description, baseUrl, has_endpoints, endpoints) ==
    [json |-> json, name |-> name, description |-> description, baseUrl |-> baseUrl,
     has_endpoints |-> has_endpoints, endpoints |-> endpoints]

NonObjectBodies ==
    {Body(j, Missing, Missing, Missing, FALSE, <<>>) :
        j \in {"invalid", "array", "number", "null", "string"}}

ObjectBodies ==
    {Body("object", n, d, b, TRUE, eps) :
        n \in {Missing, "", "api"}, d \in {Missing, "d"},
        b \in {Missing, "https://api.example", "nope"},
        eps \in SeqsUpTo(PayloadEndpoints, MaxPayloadEndpoints)}
    \cup {Body("object", n, d, b, FALSE, <<>>) :
            n \in {Missing, "", "api"}, d \in {Missing, "d"},
            b \in {Missing, "https://api.example", "nope"}}

FetchResponses ==
    [kind : {"request_error"}, status : {0}, body : {Body("invalid", Missing, Missing,
                                                          Missing, FALSE, <<>>)}]
    \cup [kind : {"response"}, status : {404, 500},
          body : {Body("invalid", Missing, Missing, Missing, FALSE, <<>>)}]
    \cup [kind : {"response"}, status : {200}, body : NonObjectBodies \cup ObjectBodies]

NoFetched == [name |-> Missing, baseUrl |-> Missing, endpoints |-> <<>>]

\* an exception of class err raised by the statement tagged rule, whose str()
\* is msg
FetchRaises(err, rule, msg) ==
    [kind |-> "raise", error |-> err, rule |-> rule, msg |-> msg, descriptor |-> NoFetched]

FetchReturns(desc) ==
    [kind |-> "return", error |-> None, rule |-> None, msg |-> None, descriptor |-> desc]

DescriptorUrl == BaseUrl \o "/.well-known/socket-agent"

\* The fields pydantic rejects in Descriptor(**data), in the order of the
\* model's fields; baseUrl has been filled in when absent or empty.
PydanticErrors(body) ==
    (IF body.name = Missing THEN <<"name">> ELSE <<>>)
    \o (IF body.description = Missing THEN <<"description">> ELSE <<>>)
    \o (IF body.baseUrl = "nope" THEN <<"baseUrl">> ELSE <<>>)
    \o (IF ~body.has_endpoints THEN <<"endpoints">>
        ELSE SelectSeq([i \in 1..Len(body.endpoints) |->
                           IF body.endpoints[i].method = Missing
                           THEN "endpoints." \o ToString(i - 1) \o ".method"
                           ELSE ""],
                       LAMBDA loc : loc # ""))

\* The endpoint that the loop of _validate_descriptor raises on.
BadEndpoint(e) == e.path = "" \/ e.method \notin {"GET", "POST", "PUT", "DELETE", "PATCH"}

\* DescriptorFetcher._validate_descriptor
ValidateDescriptor(desc) ==
    IF desc.name = ""
    THEN FetchRaises("DiscoveryError", "name", "Descriptor missing required field: name")
    ELSE IF desc.endpoints = <<>>
    THEN FetchRaises("DiscoveryError", "endpoints", "Descriptor has no endpoints")
    ELSE IF \E i \in 1..Len(desc.endpoints) : BadEndpoint(desc.endpoints[i])
    THEN LET i == CHOOSE k \in 1..Len(desc.endpoints) :
                     /\ BadEndpoint(desc.endpoints[k])
                     /\ \A j \in 1..(k - 1) : ~BadEndpoint(desc.endpoints[j])
             e == desc.endpoints[i]
         IN  IF e.path = ""
             THEN FetchRaises("DiscoveryError", "path",
                              "Endpoint missing path: path='' method='" \o e.method \o "'")
             ELSE FetchRaises("DiscoveryError", "method",
                              "Invalid HTTP method '" \o e.method \o "' for " \o e.path)
    ELSE IF \E i, j \in 1..Len(desc.endpoints) :
                /\ i # j
                /\ desc.endpoints[i].method \o ":" \o desc.endpoints[i].path
                     = desc.endpoints[j].method \o ":" \o desc.endpoints[j].path
    THEN FetchRaises("DiscoveryError", "duplicate", "Descriptor contains duplicate endpoints")
    ELSE FetchReturns(desc)

\* DescriptorFetcher.fetch(base_url) when the transport answers r
FetchResult(r) ==
    IF r.kind = "request_error"
    THEN FetchRaises("DiscoveryError", "transport",
                     "Failed to fetch descriptor: connection failed")
    ELSE IF r.status = 404
    THEN FetchRaises("DiscoveryError", "not_found",
                     "No Socket Agent descriptor found at " \o DescriptorUrl
                     \o ". Ensure the service implements Socket Agent.")
    ELSE IF r.status # 200
    THEN FetchRaises("DiscoveryError", "http_status",
                     "HTTP " \o ToString(r.status) \o " when fetching descriptor")
    ELSE IF r.body.json = "invalid"
    THEN FetchRaises("DiscoveryError", "invalid_json",
                     "Invalid JSON in descriptor: Expecting value")
    ELSE IF r.body.json # "object"
    THEN \* "baseUrl" not in data, or data["baseUrl"] = base_url, on a value
         \* that is not a dict
         FetchRaises("TypeError", "base_url",
                     IF r.body.json \in {"number", "null"}
                     THEN "argument of type is not iterable"
                     ELSE "object does not support item assignment")
    ELSE IF PydanticErrors(r.body) # <<>>
    THEN FetchRaises("DiscoveryError", "format",
                     "Invalid descriptor format: " \o Join(PydanticErrors(r.body), ", "))
    ELSE ValidateDescriptor(
             [name |-> r.body.name,
              baseUrl |-> IF r.body.baseUrl = Missing THEN BaseUrl ELSE r.body.baseUrl,
              endpoints |-> r.body.endpoints])

\* fetch is called and returns or raises.
Fetch ==
    /\ fetch_response # NotCalled
    /\ fetch_result = NotCalled
    /\ fetch_result' = FetchResult(fetch_response)
    /\ UNCHANGED <<descriptor, endpoint_cache, has_executor, max_retries, discVars,
                   fetch_response, tools_args, tools_result, execute_args, execute_kwargs,
                   sideVars, execVars, idVars, agentVars>>

(***************************************************************************)
(* Tool generation (tools.py).  An endpoint carries here, besides its path, *)
(* method and operationId, its summary, its parameters (None, or a list of *)
(* dicts with the keys in, name and required, the last present or not) and *)
(* its requestBody (None, or a dict whose application/json schema has a    *)
(* type, properties in their order, and a required array).  No parameter   *)
(* and no property of the pool declares a type or a description of its     *)
(* own, so that each gets the default ones.                                *)
(***************************************************************************)
ParamNames == {"id", "q"}

\* The declared parameters: required is True, False or not given.
DeclaredParams ==
    [in : {"query", "header"}, name : ParamNames, required : {"true", "false", Missing}]

NoBody == [given |-> FALSE, type |-> Missing, properties |-> <<>>, required |-> {}]

\* The request bodies: the schema's type, its properties and its required
\* array.
RequestBodies ==
    {NoBody}
    \cup [given : {TRUE}, type : {"object", "array", Missing},
          properties : {<<>>, <<"name">>, <<"q", "name">>},
          required : {{}, {"name"}, {"q", "zz"}}]

ToolEndpoints ==
    [path : {<<"users">>, <<"users", "{id}">>}, method : {"GET"}, operationId : {None},
     summary : {"Users"},
     parameters : SeqsUpTo(DeclaredParams, MaxParameters),
     requestBody : RequestBodies]

Formats == {"openai", "anthropic", "generic", "OpenAI", "xml", ""}

\* re.findall(r"\{([^}]+)\}", segment) for a segment of the pool
PlaceholderName(seg) ==
    CASE seg = "{id}" -> "id"
      [] seg = "{uid}" -> "uid"

\* ToolGenerator._extract_path_parameters
ExtractPathParameters(path) ==
    LET segs == SelectSeq(path, LAMBDA p : p \in PlaceholderSegs)
    IN  [i \in 1..Len(segs) |-> PlaceholderName(segs[i])]

\* Every declared parameter, wherever it goes.
QueryParams_AnyLocation(e) == e.parameters

\* the parameters with "in" == "query", in their order
QueryParams(e) == SelectSeq(e.parameters, LAMBDA p : p.in = "query")

\* the properties of a request body whose schema has the type object
BodyProps(e) ==
    IF e.requestBody.given /\ e.requestBody.type = "object"
    THEN e.requestBody.properties ELSE <<>>

EmptyProperties == [x \in {} |-> [type |-> "", description |-> ""]]

RECURSIVE PutAll(_, _, _)
\* properties[name] = {...} for every name of names, in order
PutAll(properties, names, kind) ==
    IF names = <<>> THEN properties
    ELSE PutAll(Put(properties, Head(names),
                    [type |-> "string", description |-> kind \o " parameter: " \o Head(names)]),
                Tail(names), kind)

\* ToolGenerator._generate_openai_parameters
GenerateOpenaiParameters(e) ==
    LET path_params == ExtractPathParameters(e.path)
        query == QueryParams(e)
        query_names == [i \in 1..Len(query) |-> query[i].name]
        query_required == SelectSeq(query, LAMBDA p : p.required = "true")
        body == BodyProps(e)
    IN  [type |-> "object",
         properties |-> PutAll(PutAll(PutAll(EmptyProperties, path_params, "Path"),
                                      query_names, "Query"),
                               body, "Body"),
         required |-> path_params
                      \o [i \in 1..Len(query_required) |-> query_required[i].name]
                      \o SelectSeq(body, LAMBDA n : n \in e.requestBody.required)]

\* ToolGenerator._generate_function_name
GenerateFunctionName(e) ==
    IF Truthy(e.operationId) THEN e.operationId ELSE GenerateEndpointName(e)

\* ToolGenerator._extract_parameters
ExtractParameters(e) ==
    LET path_params == ExtractPathParameters(e.path)
        query == QueryParams(e)
    IN  [i \in 1..Len(path_params) |->
            [name |-> path_params[i], in |-> "path", required |-> "true"]]
        \o [i \in 1..Len(query) |->
               [name |-> query[i].name, in |-> "query",
                required |-> IF query[i].required = Missing THEN "false"
                             ELSE query[i].required]]

\* one tool of generate_openai_tools, generate_anthropic_tools and
\* generate_generic_tools
OpenaiTool(e) ==
    [type |-> "function",
     function |-> [name |-> GenerateFunctionName(e), description |-> e.summary,
                   parameters |-> GenerateOpenaiParameters(e)]]

AnthropicTool(e) ==
    [name |-> GenerateFunctionName(e), description |-> e.summary,
     input_schema |-> GenerateOpenaiParameters(e)]

GenericTool(e) ==
    [name |-> GenerateFunctionName(e), description |-> e.summary, method |-> e.method,
     path |-> PathStr(e.path), parameters |-> ExtractParameters(e),
     request_body |-> IF e.requestBody.given THEN e.requestBody ELSE NoBody]

\* generate_tools(descriptor, format)
GenerateTools(desc, format) ==
    CASE format = "openai" ->
             [kind |-> "return", error |-> None, msg |-> None,
              tools |-> [i \in 1..Len(desc) |-> OpenaiTool(desc[i])]]
      [] format = "anthropic" ->
             [kind |-> "return", error |-> None, msg |-> None,
              tools |-> [i \in 1..Len(desc) |-> AnthropicTool(desc[i])]]
      [] format = "generic" ->
             [kind |-> "return", error |-> None, msg |-> None,
              tools |-> [i \in 1..Len(desc) |-> GenericTool(desc[i])]]
      [] OTHER ->
             [kind |-> "raise", error |-> "ValueError",
              msg |-> "Unsupported format: " \o format, tools |-> <<>>]

\* generate_tools is called and returns or raises.
CallGenerateTools ==
    /\ tools_args # NotCalled
    /\ tools_result = NotCalled
    /\ tools_result' = GenerateTools(tools_args.descriptor, tools_args.format)
    /\ UNCHANGED <<descriptor, endpoint_cache, has_executor, max_retries, discVars,
                   fetch_response, fetch_result, tools_args, execute_args, execute_kwargs,
                   sideVars, execVars, idVars, agentVars>>

(***************************************************************************)
(* Executor.execute(endpoint, params, json_data) as a function of its      *)
(* arguments: the request_kwargs it hands to _execute_with_retries.        *)
(* Absent stands for None.                                                 *)
(***************************************************************************)
ExecuteEndpoints ==
    [path : {<<"users">>, <<"users", "{id}">>},
     method : {"GET", "DELETE", "POST", "PUT", "PATCH"}, operationId : {None}]

ExecuteParams == {Absent, {}, {<<"id", "7">>}, {<<"q", "a">>}}

ExecuteJsonData == {Absent, {}, {<<"name", "x">>}}

\* execute builds its request_kwargs.
Execute ==
    /\ execute_args # NotCalled
    /\ execute_kwargs = NotCalled
    /\ execute_kwargs' = RequestKwargs(execute_args.endpoint, execute_args.params,
                                       execute_args.json_data)
    /\ UNCHANGED <<descriptor, endpoint_cache, has_executor, max_retries, discVars,
                   fetch_response, fetch_result, tools_args, tools_result, execute_args,
                   sideVars, execVars, idVars, agentVars>>

(***************************************************************************)
(* Client.call through the middlewares (socket_agent_client/client.py).    *)
(* A middleware is given by what its three hooks return: before_request    *)
(* returns (None, None) or new params, on_error returns the error it got,  *)
(* another error or None, after_response returns the response it got or a  *)
(* changed one.  A value carries the indexes of the middlewares that have  *)
(* changed it; the context is the empty dict throughout.                   *)
(***************************************************************************)
Hooks ==
    [before : {"none", "set"}, on_error : {"same", "replace", "suppress"},
     after : {"same", "modify"}]

\* what executor.execute does: it returns a response or raises
ExecuteOutcomes ==
    {[kind |-> "return", status |-> 200], [kind |-> "return", status |-> 500],
     [kind |-> "raise", status |-> 0]}

MwNames == {"get_item", "nope"}

\* middleware.before_request(endpoint, params, context) of middleware i
BeforeRequest(i, params) ==
    IF middlewares[i].before = "set" THEN Append(params, i) ELSE params

\* middleware.on_error(endpoint, e, context) of middleware i
OnError(i, e) ==
    CASE middlewares[i].on_error = "same" -> e
      [] middlewares[i].on_error = "replace" -> [name |-> "Replaced", by |-> Append(e.by, i)]
      [] OTHER -> NoError

\* middleware.after_response(endpoint, response, context) of middleware i
AfterResponse(i, r) ==
    IF middlewares[i].after = "modify" THEN [r EXCEPT !.by = Append(@, i)] ELSE r

\* The hook of middleware i runs on the current values.
Hooked(hook, i) ==
    Append(mw_trace, [hook |-> hook, mw |-> i, params |-> mw_params, error |-> mw_error,
                      response |-> mw_response])

SuppressedResponse ==
    [success |-> FALSE, status_code |-> 0, data |-> None,
     error |-> "Error suppressed by middleware", by |-> <<>>]

MwUnchanged ==
    UNCHANGED <<descriptor, endpoint_cache, has_executor, max_retries, discVars, fnVars,
                middlewares, credVars, execVars, idVars, agentVars>>

\* Client.call(endpoint_name, **params): the checks and the lookup.
MwCall(name) ==
    /\ mw_pc = "idle"
    /\ mw_params' = <<>>
    /\ mw_trace' = <<>>
    /\ mw_response' = NoMwResponse
    /\ mw_i' = 1
    /\ IF descriptor = NoDescriptor \/ ~has_executor
       THEN mw_pc' = "raised" /\ mw_error' = [name |-> "SocketAgentError", by |-> <<>>]
       ELSE IF ~Found(endpoint_cache, name)
       THEN mw_pc' = "raised" /\ mw_error' = [name |-> "ValidationError", by |-> <<>>]
       ELSE /\ mw_error' = NoError
            /\ mw_pc' = IF middlewares = <<>> THEN "execute" ELSE "before"
    /\ MwUnchanged

\* One iteration of the before_request loop.
MwBefore ==
    /\ mw_pc = "before"
    /\ mw_params' = BeforeRequest(mw_i, mw_params)
    /\ mw_trace' = Hooked("before_request", mw_i)
    /\ IF mw_i = Len(middlewares)
       THEN mw_pc' = "execute" /\ mw_i' = 1
       ELSE mw_pc' = "before" /\ mw_i' = mw_i + 1
    /\ UNCHANGED <<mw_error, mw_response>>
    /\ MwUnchanged

\* self.executor.execute(endpoint, params) returns or raises; with no
\* middleware the loops that follow do nothing.
MwExecute(o) ==
    /\ mw_pc = "execute"
    /\ mw_trace' = Hooked("execute", 0)
    /\ mw_i' = 1
    /\ IF o.kind = "return"
       THEN /\ mw_response' = [success |-> o.status = 200, status_code |-> o.status,
                               data |-> "body", error |-> None, by |-> <<>>]
            /\ mw_error' = mw_error
            /\ mw_pc' = IF middlewares = <<>> THEN "returned" ELSE "after"
       ELSE /\ mw_error' = [name |-> "ExecutionError", by |-> <<>>]
            /\ mw_response' = mw_response
            /\ mw_pc' = IF middlewares = <<>> THEN "raised" ELSE "on_error"
    /\ UNCHANGED mw_params
    /\ MwUnchanged

\* The on_error loop returning the response of a suppressed error at once.
MwOnError_SkipsAfter ==
    /\ mw_pc = "on_error"
    /\ mw_trace' = Hooked("on_error", mw_i)
    /\ LET e == OnError(mw_i, mw_error)
       IN  /\ mw_error' = e
           /\ IF e = NoError
              THEN /\ mw_response' = SuppressedResponse
                   /\ mw_pc' = "returned"
                   /\ mw_i' = 1
              ELSE /\ mw_response' = mw_response
                   /\ IF mw_i = Len(middlewares)
                      THEN mw_pc' = "raised" /\ mw_i' = 1
                      ELSE mw_pc' = "on_error" /\ mw_i' = mw_i + 1
    /\ UNCHANGED mw_params
    /\ MwUnchanged

\* One iteration of the on_error loop, with its break, and what follows the
\* loop when it ends: raise e, or the response of a suppressed error.
MwOnError ==
    /\ mw_pc = "on_error"
    /\ mw_trace' = Hooked("on_error", mw_i)
    /\ LET e == OnError(mw_i, mw_error)
       IN  /\ mw_error' = e
           /\ IF e = NoError
              THEN /\ mw_response' = SuppressedResponse
                   /\ mw_pc' = "after"
                   /\ mw_i' = 1
              ELSE /\ mw_response' = mw_response
                   /\ IF mw_i = Len(middlewares)
                      THEN mw_pc' = "raised" /\ mw_i' = 1
                      ELSE mw_pc' = "on_error" /\ mw_i' = mw_i + 1
    /\ UNCHANGED mw_params
    /\ MwUnchanged

\* One iteration of the after_response loop.
MwAfter ==
    /\ mw_pc = "after"
    /\ mw_response' = AfterResponse(mw_i, mw_response)
    /\ mw_trace' = Hooked("after_response", mw_i)
    /\ IF mw_i = Len(middlewares)
       THEN mw_pc' = "returned" /\ mw_i' = 1
       ELSE mw_pc' = "after" /\ mw_i' = mw_i + 1
    /\ UNCHANGED <<mw_params, mw_error>>
    /\ MwUnchanged

(***************************************************************************)
(* The client's credentials (client.py): authenticate, logout,             *)
(* ensure_authenticated and discover keep the executor's bearer token.     *)
(* Each operation runs alone, from its call to its end, on the answer o of *)
(* the identity service to its one request.                                *)
(***************************************************************************)
StaticTokens == {None, "s1"}

\* TokenManager.get_auth_header: the Authorization value, None without token
AuthHeader(acc) == IF Truthy(acc) THEN "Bearer " \o acc ELSE None

\* auth_headers["Authorization"].replace("Bearer ", "")
StripBearer(h) == CHOOSE a \in AccessTokens : "Bearer " \o a = h

\* IdentityClient.is_authenticated
IsAuthenticated(acc, ref, exp, t) == HasValidToken(acc, exp, t) \/ Truthy(ref)

\* Client.is_authenticated
ClientIsAuthenticated ==
    IF has_identity THEN IsAuthenticated(access_token, refresh_token, expires_at, now)
    ELSE Truthy(auth_token)

\* "if self.executor: ... self.executor.auth_token = auth_token", with the
\* access token acc that the Token Manager holds by then.
SyncExecutor(acc) ==
    executor_auth_token' = IF has_executor /\ AuthHeader(acc) # None
                           THEN StripBearer(AuthHeader(acc))
                           ELSE executor_auth_token

CredEnds(op, kind) == cred_result' = [op |-> op, kind |-> kind, bearer |-> None]

CredUnchanged ==
    UNCHANGED <<discVars, fnVars, mwVars, auth_token, execVars, now, id_pc, id_sent,
                id_calls, id_pre, id_result, agentVars>>

\* Client.discover() that succeeds; idurl: the descriptor names an identity
\* service.  A new Executor gets the identity client's token if that client is
\* authenticated, the static token otherwise.
CredDiscover(idurl) ==
    /\ descriptor' = <<GetItem>>
    /\ endpoint_cache' = BuildEndpointCache(<<GetItem>>)
    /\ has_executor' = TRUE
    /\ max_retries' = DEFAULT_MAX_RETRIES
    /\ has_identity' = (has_identity \/ idurl)
    /\ executor_auth_token'
         = IF /\ has_identity'
              /\ IsAuthenticated(access_token, refresh_token, expires_at, now)
              /\ AuthHeader(access_token) # None
           THEN StripBearer(AuthHeader(access_token))
           ELSE auth_token
    /\ CredEnds("discover", "return")
    /\ KeepTokens
    /\ UNCHANGED logged_out
    /\ CredUnchanged

\* Client.authenticate(username, password)
CredAuthenticate(o) ==
    /\ IF ~has_identity
       THEN /\ CredEnds("authenticate", "raise")
            /\ KeepTokens
            /\ UNCHANGED <<executor_auth_token, logged_out>>
       ELSE IF AnswerError(o) = None
       THEN /\ SetTokens(o.token)
            /\ SyncExecutor(o.token.access_token)
            /\ CredEnds("authenticate", "return")
            /\ logged_out' = FALSE
       ELSE /\ KeepTokens
            /\ CredEnds("authenticate", "raise")
            /\ UNCHANGED <<executor_auth_token, logged_out>>
    /\ UNCHANGED <<descriptor, endpoint_cache, has_executor, max_retries, has_identity>>
    /\ CredUnchanged

\* Client.logout(): the identity client's logout (which raises on an exception
\* other than httpx.RequestError, after clearing the tokens), then the
\* executor's token is set to None.
CredLogout(o) ==
    /\ IF has_identity /\ ~LogoutReturnsEarly(refresh_token) THEN Clear ELSE KeepTokens
    /\ IF has_identity /\ ~LogoutReturnsEarly(refresh_token) /\ o.kind = "exception"
       THEN /\ CredEnds("logout", "raise")
            /\ UNCHANGED <<executor_auth_token, logged_out>>
       ELSE /\ CredEnds("logout", "return")
            /\ executor_auth_token' = IF has_executor THEN None ELSE executor_auth_token
            /\ logged_out' = TRUE
    /\ UNCHANGED <<descriptor, endpoint_cache, has_executor, max_retries, has_identity>>
    /\ CredUnchanged

\* Client.ensure_authenticated()
CredEnsure(o) ==
    /\ IF has_identity
       THEN LET dec == EnsureDecision(access_token, refresh_token, expires_at, now)
            IN  CASE dec = "return" ->
                         /\ KeepTokens
                         /\ SyncExecutor(access_token)
                         /\ CredEnds("ensure_authenticated", "return")
                  [] dec = "refresh" ->
                         /\ CASE AnswerError(o) = None -> SetTokens(o.token)
                              [] o.kind = "response" /\ o.status = 401 -> Clear
                              [] OTHER -> KeepTokens
                         /\ IF /\ AnswerError(o) = None
                               /\ EnsureAfterRefresh(o.token.access_token) = "return"
                            THEN /\ SyncExecutor(o.token.access_token)
                                 /\ CredEnds("ensure_authenticated", "return")
                            ELSE /\ UNCHANGED executor_auth_token
                                 /\ CredEnds("ensure_authenticated", "raise")
                  [] OTHER ->
                         /\ KeepTokens
                         /\ UNCHANGED executor_auth_token
                         /\ CredEnds("ensure_authenticated", "raise")
       ELSE /\ KeepTokens
            /\ UNCHANGED executor_auth_token
            /\ CredEnds("ensure_authenticated",
                        IF Truthy(auth_token) THEN "return" ELSE "raise")
    /\ UNCHANGED <<descriptor, endpoint_cache, has_executor, max_retries, has_identity,
                   logged_out>>
    /\ CredUnchanged

\* A request of the executor: _prepare_headers adds the bearer header when the
\* executor's token is truthy.
CredRequest ==
    /\ has_executor
    /\ cred_result' = [op |-> "request", kind |-> "return",
                       bearer |-> IF Truthy(executor_auth_token)
                                  THEN "Bearer " \o executor_auth_token ELSE None]
    /\ KeepTokens
    /\ UNCHANGED <<descriptor, endpoint_cache, has_executor, max_retries, has_identity,
                   executor_auth_token, logged_out>>
    /\ CredUnchanged

\* A client built with auto_discover=False, with or without an identity
\* service URL and a static bearer token.
InitCredential ==
    /\ InitTable
    /\ InitDisc
    /\ InitFn
    /\ InitMw
    /\ auth_token \in StaticTokens
    /\ has_identity \in BOOLEAN
    /\ executor_auth_token = None
    /\ cred_result = NoCred
    /\ logged_out = FALSE
    /\ InitExec
    /\ InitId
    /\ InitAgent

NextCredential ==
    \/ \E idurl \in BOOLEAN : CredDiscover(idurl)
    \/ \E o \in IdOutcomes : CredAuthenticate(o)
    \/ \E o \in IdOutcomes : CredEnsure(o)
    \/ \E o \in IdOutcomes : CredLogout(o)
    \/ CredRequest
    \/ Tick(MaxTimeConcurrent)

SpecCredential == InitCredential /\ [][NextCredential]_vars

(***************************************************************************)
(* Client.discover() on what the transport answers to the fetch: the       *)
(* descriptor is assigned only once fetch_descriptor has returned.  The    *)
(* client has no credentials here.                                         *)
(***************************************************************************)
\* The answers a discover() is driven with: every failure of the fetch, and
\* the object payloads of up to two endpoints under the paths and GET
\* spellings of the pool.
DiscoverResponses ==
    {r \in FetchResponses :
        \/ r.kind # "response"
        \/ r.status # 200
        \/ r.body.json # "object"
        \/ /\ r.body.description = "d"
           /\ r.body.baseUrl = Missing
           /\ r.body.name \in {"", "api"}
           /\ \A i \in 1..Len(r.body.endpoints) :
                 /\ r.body.endpoints[i].method \in {"GET", "get"}
                 /\ r.body.endpoints[i].path # ""}

\* The Endpoint of a validated payload entry: its path split at "/", no
\* operationId.
FetchedEndpoint(e) ==
    [path |-> CASE e.path = "/users" -> <<"users">>
                [] e.path = "/items" -> <<"items">>
                [] OTHER -> <<>>,
     method |-> e.method, operationId |-> None]

\* discover() resetting the client when the fetch fails.
DiscoverFetched_ResetsOnFailure(r) ==
    /\ ex_pc = "idle"
    /\ disc_pc = "idle"
    /\ fetch_response' = r
    /\ fetch_result' = FetchResult(r)
    /\ IF FetchResult(r).kind = "raise"
       THEN /\ descriptor' = NoDescriptor
            /\ endpoint_cache' = EmptyCache
            /\ UNCHANGED <<has_executor, max_retries>>
       ELSE LET d == [i \in 1..Len(FetchResult(r).descriptor.endpoints) |->
                         FetchedEndpoint(FetchResult(r).descriptor.endpoints[i])]
            IN  /\ descriptor' = d
                /\ has_executor' = TRUE
                /\ max_retries' = DEFAULT_MAX_RETRIES
                /\ endpoint_cache' = BuildEndpointCache(d)
    /\ UNCHANGED <<discVars, tools_args, tools_result, execute_args, execute_kwargs,
                   sideVars, execVars, idVars, agentVars>>

\* discover(): fetch_descriptor raises, or its descriptor is stored, a new
\* Executor is built and the endpoint cache rebuilt.
DiscoverFetched(r) ==
    /\ ex_pc = "idle"
    /\ disc_pc = "idle"
    /\ fetch_response' = r
    /\ fetch_result' = FetchResult(r)
    /\ IF FetchResult(r).kind = "raise"
       THEN UNCHANGED <<descriptor, endpoint_cache, has_executor, max_retries>>
       ELSE LET d == [i \in 1..Len(FetchResult(r).descriptor.endpoints) |->
                         FetchedEndpoint(FetchResult(r).descriptor.endpoints[i])]
            IN  /\ descriptor' = d
                /\ has_executor' = TRUE
                /\ max_retries' = DEFAULT_MAX_RETRIES
                /\ endpoint_cache' = BuildEndpointCache(d)
    /\ UNCHANGED <<discVars, tools_args, tools_result, execute_args, execute_kwargs,
                   sideVars, execVars, idVars, agentVars>>

DiscoverCallNames == {"list_users", "list_items"}

NextDiscover ==
    \/ \E r \in DiscoverResponses : DiscoverFetched(r)
    \/ \E name \in DiscoverCallNames : Call(name, {})
    \/ \E o \in AgentOutcomes : ExecAttempt(o)
    \/ CallReturns

Init == InitClient /\ InitExec /\ InitId /\ InitAgent

SpecDiscover == Init /\ [][NextDiscover]_vars

\* A discovered client with any list of middlewares of the pool.
InitMiddleware ==
    /\ descriptor = <<GetItem>>
    /\ endpoint_cache = BuildEndpointCache(<<GetItem>>)
    /\ has_executor = TRUE
    /\ max_retries = DEFAULT_MAX_RETRIES
    /\ InitDisc
    /\ InitFn
    /\ middlewares \in SeqsUpTo(Hooks, MaxMiddlewares)
    /\ mw_pc = "idle"
    /\ mw_i = 0
    /\ mw_params = <<>>
    /\ mw_error = NoError
    /\ mw_response = NoMwResponse
    /\ mw_trace = <<>>
    /\ InitCred
    /\ InitExec
    /\ InitId
    /\ InitAgent

NextMiddleware ==
    \/ \E name \in MwNames : MwCall(name)
    \/ MwBefore
    \/ \E o \in ExecuteOutcomes : MwExecute(o)
    \/ MwOnError
    \/ MwAfter

SpecMiddleware == InitMiddleware /\ [][NextMiddleware]_vars

\* Executor.execute over every endpoint, parameter map and body payload of the
\* pool.
InitExecute ==
    /\ InitTable
    /\ InitDisc
    /\ InitSide
    /\ InitExec
    /\ InitId
    /\ InitAgent
    /\ fetch_response = NotCalled
    /\ fetch_result = NotCalled
    /\ tools_args = NotCalled
    /\ tools_result = NotCalled
    /\ execute_args \in [kind : {"call"}, endpoint : ExecuteEndpoints,
                          params : ExecuteParams, json_data : ExecuteJsonData]
    /\ execute_kwargs = NotCalled

NextExecute == Execute

SpecExecute == InitExecute /\ [][NextExecute]_vars

\* generate_tools over the descriptors of one endpoint of the pool and every
\* format name.
InitTools ==
    /\ InitTable
    /\ InitDisc
    /\ InitSide
    /\ InitExec
    /\ InitId
    /\ InitAgent
    /\ fetch_response = NotCalled
    /\ fetch_result = NotCalled
    /\ tools_args \in [kind : {"call"}, descriptor : {<<e>> : e \in ToolEndpoints},
                        format : Formats]
    /\ tools_result = NotCalled
    /\ execute_args = NotCalled
    /\ execute_kwargs = NotCalled

NextTools == CallGenerateTools

SpecTools == InitTools /\ [][NextTools]_vars

\* DescriptorFetcher.fetch over every answer of the pool.
InitFetch ==
    /\ InitTable
    /\ InitDisc
    /\ InitSide
    /\ InitExec
    /\ InitId
    /\ InitAgent
    /\ fetch_response \in FetchResponses
    /\ fetch_result = NotCalled
    /\ tools_args = NotCalled
    /\ tools_result = NotCalled
    /\ execute_args = NotCalled
    /\ execute_kwargs = NotCalled

NextFetch == Fetch

SpecFetch == InitFetch /\ [][NextFetch]_vars

\* Client.call and the Executor: discovery, configuration, calls by name.
Next ==
    \/ \E d \in ExecDescriptors : Discover(d)
    \/ \E n \in 0..MaxRetriesBound : Configure(n)
    \/ \E name \in CallNames, params \in CallParams : Call(name, params)
    \/ \E o \in TransportOutcomes : ExecAttempt(o)
    \/ CallReturns

Spec == Init /\ [][Next]_vars

\* Discovery alone, over every valid descriptor of the pool.
NextTable ==
    \/ \E d \in Descriptors : Discover(d)
    \/ DiscoverFails

SpecTable == Init /\ [][NextTable]_vars

\* discover() of one thread, step by step, with lookups of another thread in
\* between.
NextSwap ==
    \/ \E d \in ExecDescriptors : DiscoverAssign(d)
    \/ DiscoverExecutor
    \/ DiscoverClear
    \/ DiscoverWrite
    \/ DiscoverReturn
    \/ \E name \in CallNames : GetEndpoint(name)
    \/ ListEndpoints

SpecSwap == Init /\ [][NextSwap]_vars

LogoutOutcomes == {o \in IdOutcomes : o.token = NoTokenResponse}

\* The answers considered with concurrent callers.
ConcurrentOutcomes ==
    {o \in IdOutcomes :
        \/ o.kind = "request_error"
        \/ o.kind = "response" /\ o.status = 401
        \/ o.kind = "response" /\ o.status = 200 /\ o.token.refresh_token = "r1"
           /\ <<o.token.access_token, o.token.expires_in>> \in {<<"a1", 30>>, <<"a2", 60>>}}

IdentityStep(t, outs) ==
    \/ LoginStart(t)
    \/ \E o \in outs : LoginResponse(t, o)
    \/ RefreshStart(t)
    \/ EnsureStart(t)
    \/ \E o \in outs : RefreshResponse(t, o)
    \/ LogoutStart(t)
    \/ \E o \in outs \cap LogoutOutcomes : LogoutResponse(t, o)

\* One caller of the IdentityClient at a time, and the clock.
NextToken ==
    \/ IdentityStep("t1", IdOutcomes)
    \/ Tick(MaxTime)

SpecToken == Init /\ [][NextToken]_vars

\* Concurrent callers of one IdentityClient.
NextIdentity ==
    \/ \E t \in Tasks : IdentityStep(t, ConcurrentOutcomes)
    \/ Tick(MaxTimeConcurrent)

SpecIdentity == Init /\ [][NextIdentity]_vars

\* A SocketAgent after construction (its Client has discovered a descriptor),
\* possibly after earlier asks.
InitSocketAgent ==
    /\ \E d \in ExecDescriptors :
          /\ descriptor = d
          /\ endpoint_cache = BuildEndpointCache(d)
    /\ has_executor = TRUE
    /\ max_retries = DEFAULT_MAX_RETRIES
    /\ InitDisc
    /\ InitFn
    /\ InitSide
    /\ InitExec
    /\ InitId
    /\ \E k \in PriorAsks : conversation_history = History0(k)
    /\ ask_pc = "idle"
    /\ ask_question = None
    /\ ask_messages = <<>>
    /\ ask_first = NoCompletion
    /\ ask_second = NoCompletion
    /\ ask_next = 0
    /\ ask_tool_results = <<>>
    /\ ask_hist0 = <<>>
    /\ llm_calls = 0
    /\ exec_calls = 0
    /\ ask_result = NoAskResult
    /\ ask_count = 0

NextAgent ==
    \/ \E q \in Questions, c \in FirstCompletions : AskStart(q, c)
    \/ AskToolCall
    \/ \E o \in AgentOutcomes : ExecAttempt(o)
    \/ AskToolReturn
    \/ \E c \in SecondCompletions : AskSecond(c)
    \/ AskReturns
    \/ ResetConversation

SpecAgent == InitSocketAgent /\ [][NextAgent]_vars

(***************************************************************************)
(* Properties                                                              *)
(***************************************************************************)
AllTimeouts ==
    /\ Len(outcomes) >= 1
    /\ \A i \in 1..Len(outcomes) : outcomes[i].kind = "timeout"

\* C1 as stated: with max_retries = 3 and a transport that times out on every
\* attempt, execute makes exactly 3 attempts, sleeps 1, 2 and 4 time units and
\* then raises TimeoutError.
C1_ThreeSleeps ==
    (ex_pc = "done" /\ max_retries = 3 /\ AllTimeouts)
    => /\ Len(requests) = 3
       /\ sleeps = <<1, 2, 4>>
       /\ call_result.kind = "raise"
       /\ call_result.error = "TimeoutError"

\* C1 amended: with max_retries = 3 and a transport that times out on every
\* attempt, execute makes exactly 3 attempts, sleeps 1 and 2 time units between
\* them (no sleep follows the last attempt) and then raises TimeoutError.
C1_ThreeAttemptsTwoSleeps ==
    (max_retries = 3 /\ AllTimeouts)
    => /\ Len(requests) = Len(outcomes)
       /\ Len(requests) <= 3
       /\ ex_pc = "running" => sleeps = SubSeq(<<1, 2>>, 1, Len(outcomes))
       /\ ex_pc = "done" => /\ Len(requests) = 3
                            /\ sleeps = <<1, 2>>
                            /\ call_result.kind = "raise"
                            /\ call_result.error = "TimeoutError"

C1_Witness ==
    /\ ex_pc = "done"
    /\ max_retries = 3
    /\ AllTimeouts
    /\ Len(requests) = 3
    /\ call_result.error = "TimeoutError"

\* C2: refresh is single-flight: at no time are two refresh calls issued by
\* concurrent ensure_valid_token() callers on the wire.
C2_SingleFlight ==
    \A t1, t2 \in Tasks :
        (id_pc[t1] = "ensure" /\ id_pc[t2] = "ensure") => t1 = t2

\* C3: a lookup of a string that is some endpoint's operationId returns an
\* endpoint carrying that operationId.
C3_OperationIdWins ==
    \A i \in 1..Len(descriptor) :
        Truthy(descriptor[i].operationId)
        => /\ Found(endpoint_cache, descriptor[i].operationId)
           /\ FindEndpoint(endpoint_cache, descriptor[i].operationId).operationId
                = descriptor[i].operationId

\* The tool call of the running ask resolves: its arguments parse and its name
\* is a key of the endpoint table.
ToolCallResolves(tc) ==
    /\ ParseArguments(tc)[1]
    /\ Found(endpoint_cache, tc.name)

OneToolCallThenText ==
    /\ ask_pc = "done"
    /\ ask_first.kind = "response"
    /\ Len(ask_first.tool_calls) = 1
    /\ ask_second.kind = "response"
    /\ ask_second.tool_calls = <<>>

\* C4 as stated: an ask whose first completion returns exactly one tool call
\* and whose second completion returns plain text invokes the Executor exactly
\* once, returns the second completion's text, and the history grows by exactly
\* the user question and the final answer.
C4_OneToolCall ==
    OneToolCallThenText
    => /\ exec_calls = 1
       /\ ask_result.kind = "return"
       /\ ask_result.value = ask_second.content
       /\ conversation_history
            = ask_hist0 \o <<UserMsg(ask_question), AssistantMsg(ask_second.content)>>

\* C4 amended: if moreover the tool call resolves (its arguments parse and its
\* name is in the endpoint table), the Executor is invoked exactly once, ask
\* returns the second completion's text, and the history is the old history
\* followed by the user question and the final answer, cut to its 20 most
\* recent entries; it holds no tool-call or tool-result message.
C4_OneResolvedToolCall ==
    (OneToolCallThenText /\ ToolCallResolves(ask_first.tool_calls[1]))
    => /\ exec_calls = 1
       /\ llm_calls = 2
       /\ ask_result.kind = "return"
       /\ ask_result.value = ask_second.content
       /\ conversation_history
            = LastN(ask_hist0 \o <<UserMsg(ask_question),
                                   AssistantMsg(ask_second.content)>>, 20)
       /\ Len(ask_hist0) <= 18 => Len(conversation_history) = Len(ask_hist0) + 2
       /\ \A i \in 1..Len(conversation_history) :
             /\ conversation_history[i].role \in {"user", "assistant"}
             /\ conversation_history[i].tool_calls = <<>>
             /\ conversation_history[i].tool_call_id = None

C4_Witness ==
    /\ OneToolCallThenText
    /\ ToolCallResolves(ask_first.tool_calls[1])
    /\ exec_calls = 1
    /\ Len(ask_hist0) = 20
    /\ ask_result.value = "a1"

LogoutDone(t) ==
    /\ id_pc[t] = "idle"
    /\ id_result[t].op = "logout"
    /\ id_result[t].kind # "none"

\* C5: once logout() has finished, in whatever way and from whatever token
\* state, the access token, the refresh token and the expiry are cleared, and a
\* network failure of the logout call is not raised.
C5_LogoutClears ==
    \A t \in Tasks :
        LogoutDone(t)
        => /\ access_token = None
           /\ refresh_token = None
           /\ expires_at = 0
           /\ id_result[t].resp.kind = "request_error" => id_result[t].kind = "return"

EnsureDone(t) ==
    /\ id_pc[t] = "idle"
    /\ id_result[t].op = "ensure"
    /\ id_result[t].kind # "none"

RefreshAnswered200(t) ==
    /\ id_result[t].resp.kind = "response"
    /\ id_result[t].resp.status = 200

EnsureWithoutRefresh(t) ==
    /\ id_pre[t].valid
       => /\ id_result[t].kind = "return"
          /\ id_result[t].value = id_pre[t].access
          /\ id_calls[t] = <<>>
    /\ (~id_pre[t].valid /\ ~Truthy(id_pre[t].refresh))
       => /\ id_result[t].kind = "raise"
          /\ id_result[t].error = "AuthenticationError"
          /\ id_calls[t] = <<>>

\* C6 as stated: ensure_valid_token() returns a valid access token without
\* network call; otherwise, with a refresh token, it makes exactly one refresh
\* call and on success returns the newly issued access token; otherwise it
\* raises AuthenticationError without network call.
C6_EnsureValid ==
    \A t \in Tasks :
        EnsureDone(t)
        => /\ EnsureWithoutRefresh(t)
           /\ (~id_pre[t].valid /\ Truthy(id_pre[t].refresh))
              => /\ id_calls[t] = <<"/v1/auth/refresh">>
                 /\ RefreshAnswered200(t)
                    => /\ id_result[t].kind = "return"
                       /\ id_result[t].value = id_result[t].resp.token.access_token

\* C6 amended: as C6, but on a successful refresh the newly issued access token
\* is returned only if it is a non-empty string; an empty issued access token
\* makes ensure_valid_token() raise AuthenticationError.
C6_EnsureValidNonEmpty ==
    \A t \in Tasks :
        EnsureDone(t)
        => /\ EnsureWithoutRefresh(t)
           /\ (~id_pre[t].valid /\ Truthy(id_pre[t].refresh))
              => /\ id_calls[t] = <<"/v1/auth/refresh">>
                 /\ (RefreshAnswered200(t) /\ id_result[t].resp.token.access_token # "")
                    => /\ id_result[t].kind = "return"
                       /\ id_result[t].value = id_result[t].resp.token.access_token
                       /\ id_result[t].value = access_token
                 /\ (RefreshAnswered200(t) /\ id_result[t].resp.token.access_token = "")
                    => /\ id_result[t].kind = "raise"
                       /\ id_result[t].error = "AuthenticationError"

C6_Witness ==
    \E t \in Tasks :
        /\ EnsureDone(t)
        /\ ~id_pre[t].valid
        /\ id_pre[t].access = "a1"
        /\ RefreshAnswered200(t)
        /\ id_result[t].kind = "return"
        /\ id_result[t].value = "a2"

\* C7: a token set with expires_in = 60 at time t0 is valid at every time up
\* to t0 + 30 and invalid at every time from t0 + 31 on; without a recorded
\* expiry the token is expired.
C7_ExpiryBuffer ==
    /\ (issued # NotIssued /\ issued.expires_in = 60)
       => /\ now <= issued.at + 30 => HasValidToken(access_token, expires_at, now)
          /\ now >= issued.at + 31 => ~HasValidToken(access_token, expires_at, now)
    /\ issued # NotIssued
       => (HasValidToken(access_token, expires_at, now)
             <=> now + 30 <= issued.at + issued.expires_in)
    /\ expires_at = 0
       => /\ IsExpired(expires_at, now)
          /\ ~HasValidToken(access_token, expires_at, now)

C7_Witness ==
    /\ issued # NotIssued
    /\ issued.expires_in = 60
    /\ now = issued.at + 31
    /\ now < expires_at
    /\ ~HasValidToken(access_token, expires_at, now)

DistinctOperationIds(d) ==
    /\ \A i \in 1..Len(d) : Truthy(d[i].operationId)
    /\ \A i, j \in 1..Len(d) : i # j => d[i].operationId # d[j].operationId

KeysOf(d) ==
    {d[i].operationId : i \in 1..Len(d)}
    \cup {GenerateEndpointName(d[i]) : i \in 1..Len(d)}
    \cup {MethodPathKey(d[i]) : i \in 1..Len(d)}

ReachableByAllKeys(d, cache) ==
    \A i \in 1..Len(d) :
        /\ FindEndpoint(cache, d[i].operationId) = d[i]
        /\ FindEndpoint(cache, GenerateEndpointName(d[i])) = d[i]
        /\ FindEndpoint(cache, MethodPathKey(d[i])) = d[i]

\* C8 as stated: for N endpoints with distinct operationIds the table has at
\* least 3N entries and every endpoint is found under its operationId, its
\* generated name and its method:path key.
C8_AtLeast3N ==
    (descriptor # NoDescriptor /\ DistinctOperationIds(descriptor))
    => /\ Cardinality(DOMAIN endpoint_cache) >= 3 * Len(descriptor)
       /\ ReachableByAllKeys(descriptor, endpoint_cache)

\* C8 amended: for N endpoints whose 3N keys (operationIds, generated names,
\* method:path keys) are pairwise distinct the table has exactly 3N entries and
\* every endpoint is found under each of its three keys; in general the table
\* has at most 3N entries.
C8_Exactly3NWhenDistinct ==
    /\ Cardinality(DOMAIN endpoint_cache) <= 3 * Len(descriptor)
    /\ (/\ descriptor # NoDescriptor
        /\ DistinctOperationIds(descriptor)
        /\ Cardinality(KeysOf(descriptor)) = 3 * Len(descriptor))
       => /\ Cardinality(DOMAIN endpoint_cache) = 3 * Len(descriptor)
          /\ ReachableByAllKeys(descriptor, endpoint_cache)

C8_Witness ==
    /\ Len(descriptor) = 2
    /\ DistinctOperationIds(descriptor)
    /\ Cardinality(KeysOf(descriptor)) = 6
    /\ Cardinality(DOMAIN endpoint_cache) = 6

Widget == [t |-> "dict", d |-> {<<"id", "7">>, <<"name", "widget">>}, s |-> ""]

\* C9: with the single endpoint GET /items/{id} (operationId get_item),
\* call("get_item", id="7") issues one GET request to /items/7 without query
\* string, and a 200 response with a JSON body gives success, status 200 and
\* the decoded body as data.
C9_PathSubstituted ==
    (/\ descriptor = <<GetItem>>
     /\ ex_pc = "done"
     /\ ex_args = [name |-> "get_item", params |-> {<<"id", "7">>}]
     /\ Len(outcomes) = 1
     /\ outcomes[1] = [kind |-> "response", status |-> 200,
                       body |-> "{\"id\":\"7\",\"name\":\"widget\"}"])
    => /\ requests = <<[method |-> "GET", url |-> BaseUrl \o "/items/7",
                        params |-> Absent, json |-> Absent]>>
       /\ call_result.kind = "return"
       /\ call_result.response.success
       /\ call_result.response.status_code = 200
       /\ call_result.response.data = Widget

\* C10: an attempt answered with 429 is the last one: RateLimitError is raised
\* at once, no attempt and no sleep follows it (each earlier attempt was
\* followed by its one sleep).
C10_RateLimitImmediate ==
    \A i \in 1..Len(outcomes) :
        (outcomes[i].kind = "response" /\ outcomes[i].status = 429)
        => /\ i = Len(outcomes)
           /\ Len(requests) = i
           /\ Len(sleeps) = i - 1
           /\ ex_pc = "done"
           /\ call_result.kind = "raise"
           /\ call_result.error = "RateLimitError"

C10_Witness ==
    /\ Len(outcomes) = 1
    /\ outcomes[1].kind = "response"
    /\ outcomes[1].status = 429
    /\ Len(requests) = 1
    /\ sleeps = <<>>
    /\ call_result.error = "RateLimitError"

\* C11: an attempt answered with 401 or 403 is the last one: AuthenticationError
\* is raised at once, no attempt and no sleep follows it, and no APIResponse is
\* returned.
C11_AuthFailureImmediate ==
    \A i \in 1..Len(outcomes) :
        (outcomes[i].kind = "response" /\ outcomes[i].status \in {401, 403})
        => /\ i = Len(outcomes)
           /\ Len(requests) = i
           /\ Len(sleeps) = i - 1
           /\ ex_pc = "done"
           /\ call_result.kind = "raise"
           /\ call_result.error = "AuthenticationError"
           /\ call_result.response = NoResponse

C11_Witness ==
    /\ Len(outcomes) = 2
    /\ outcomes[1].kind = "timeout"
    /\ outcomes[2].kind = "response"
    /\ outcomes[2].status = 403
    /\ sleeps = <<1>>
    /\ call_result.error = "AuthenticationError"

IsTransient(o) == o.kind \in {"timeout", "request_error"}

\* The call ended with a TimeoutError or with the ExecutionError of a network
\* failure.
TransientErrorSurfaced ==
    /\ ex_pc = "done"
    /\ call_result.kind = "raise"
    /\ \/ call_result.error = "TimeoutError"
       \/ /\ call_result.error = "ExecutionError"
          /\ call_result.msg = "Request failed: connection failed"

\* What execute gives for the response o when o answers the first attempt.
ResultOfResponse(o) ==
    CASE OnResponse(o).act = "return" -> Returned(OnResponse(o).response)
      [] OnResponse(o).act = "raise" -> Raised(OnResponse(o).err, OnResponse(o).msg)
      [] OTHER -> AfterLoop(OnResponse(o).err, OnResponse(o).msg)

\* C12: when attempt k gets an HTTP response after k-1 transient failures, the
\* call ends with what that response alone gives and no transient error is
\* surfaced; a TimeoutError or network ExecutionError is raised only after
\* max_retries attempts that all failed transiently.
C12_SurfacedAfterExhaustion ==
    /\ Len(outcomes) <= max_retries
    /\ \A k \in 1..Len(outcomes) :
          outcomes[k].kind = "response"
          => /\ k = Len(outcomes)
             /\ \A i \in 1..(k - 1) : IsTransient(outcomes[i])
             /\ ex_pc = "done"
             /\ ~TransientErrorSurfaced
             /\ call_result = ResultOfResponse(outcomes[k])
    /\ TransientErrorSurfaced
       => /\ Len(outcomes) = max_retries
          /\ \A i \in 1..Len(outcomes) : IsTransient(outcomes[i])

C12_Witness ==
    /\ Len(outcomes) = 3
    /\ outcomes[1].kind = "timeout"
    /\ outcomes[2].kind = "request_error"
    /\ outcomes[3].kind = "response"
    /\ outcomes[3].status = 200
    /\ call_result.kind = "return"
    /\ call_result.response.success

\* C13: a response whose status is not 401, 403 or 429 ends the call after
\* that attempt with a returned APIResponse whose success is
\* (200 <= status < 400); when success is false its error is a string: the
\* body's error field, else its message field, else the HTTP status.
C13_CompletedResult ==
    \A k \in 1..Len(outcomes) :
        (outcomes[k].kind = "response" /\ outcomes[k].status \notin {401, 403, 429})
        => /\ k = Len(outcomes)
           /\ ex_pc = "done"
           /\ call_result.kind = "return"
           /\ call_result.response.status_code = outcomes[k].status
           /\ call_result.response.success
                = (200 <= outcomes[k].status /\ outcomes[k].status < 400)
           /\ ~call_result.response.success
              => /\ call_result.response.error # None
                 /\ call_result.response.error # ObjectValue
                 /\ outcomes[k].body = "{\"error\":\"bad\"}"
                    => call_result.response.error = "bad"
                 /\ outcomes[k].body = "{\"message\":\"no\"}"
                    => call_result.response.error = "no"
                 /\ outcomes[k].body \in {"", "[1]", "oops"}
                    => call_result.response.error
                         = "HTTP " \o ToString(outcomes[k].status) \o ": "
                           \o ReasonPhrase(outcomes[k].status)

\* C14: an ask that fails, at the creation of the LLM provider or in either
\* completion, raises SocketAgentError with the message of the original error;
\* no other exception leaves ask(), and a failing tool dispatch raises nothing.
C14_AlwaysWrapped ==
    ask_pc = "done"
    => /\ ask_result.kind \in {"return", "raise"}
       /\ ask_result.kind = "raise"
          => /\ ask_result.error = "SocketAgentError"
             /\ \/ ask_first.kind \in {"raise", "provider_error"}
                \/ ask_second.kind = "raise"
       /\ ask_first.kind \in {"raise", "provider_error"}
          => /\ ask_result.kind = "raise"
             /\ ask_result.msg = "Failed to process question: " \o ask_first.content
       /\ ask_second.kind = "raise"
          => /\ ask_result.kind = "raise"
             /\ ask_result.msg = "Failed to process question: " \o ask_second.content
       /\ (ask_first.kind = "response" /\ ask_second.kind # "raise")
          => ask_result.kind = "return"

C14_Witness ==
    /\ ask_pc = "done"
    /\ ask_second.kind = "raise"
    /\ Len(ask_tool_results) >= 1
    /\ ~ask_tool_results[1].success
    /\ ask_result.error = "SocketAgentError"
    /\ ask_result.msg = "Failed to process question: llm failed"

\* C15: an ask makes one LLM completion when the first response has no tool
\* calls and two when it has some; nothing is executed once the second
\* completion has been made, whatever tool calls it carries, and its content
\* is the answer.
C15_OneToolRound ==
    /\ llm_calls <= 2
    /\ ask_second.kind # "none"
       => /\ ask_pc = "done"
          /\ ex_pc = "idle"
          /\ llm_calls = 2
          /\ Len(ask_tool_results) = Len(ask_first.tool_calls)
          /\ exec_calls <= Len(ask_first.tool_calls)
    /\ (ask_pc = "done" /\ ask_first.kind = "response")
       => IF ask_first.tool_calls = <<>>
          THEN /\ llm_calls = 1
               /\ ask_second.kind = "none"
               /\ exec_calls = 0
               /\ ask_result.kind = "return"
               /\ ask_result.value = ask_first.content
          ELSE /\ llm_calls = 2
               /\ ask_second.kind # "none"
               /\ ask_second.kind = "response"
                  => /\ ask_result.kind = "return"
                     /\ ask_result.value = ask_second.content

C15_Witness ==
    /\ ask_pc = "done"
    /\ ask_second.kind = "response"
    /\ ask_second.tool_calls # <<>>
    /\ llm_calls = 2
    /\ exec_calls = 1
    /\ ask_result.value = "a2"

\* The records of the tool calls made so far: a call whose arguments do not
\* parse or whose name is not in the endpoint table has a failure record; the
\* ask goes on to the last tool call and to the second completion.
ToolFailuresRecorded ==
    /\ ask_pc = "tools" => ask_result = NoAskResult
    /\ \A i \in 1..Len(ask_tool_results) :
          (~ParseArguments(ask_first.tool_calls[i])[1]
           \/ ~Found(endpoint_cache, ask_first.tool_calls[i].name))
          => /\ ~ask_tool_results[i].success
             /\ ask_tool_results[i].error # None
             /\ ask_tool_results[i].status_code = 0
    /\ (ask_pc = "done" /\ ask_first.kind = "response" /\ ask_first.tool_calls # <<>>)
       => /\ Len(ask_tool_results) = Len(ask_first.tool_calls)
          /\ ask_second.kind # "none"
          /\ llm_calls = 2

\* The step in which _execute_tool_call hands its record to ask: a call that
\* raised gives a failure record with the exception's message, and the loop
\* goes on.
ToolReturnStep ==
    (ask_pc = "tools" /\ ex_pc = "done" /\ ex_caller = "agent" /\ ex_pc' = "idle")
    => /\ ask_pc' = "tools"
       /\ ask_next' = ask_next + 1
       /\ Len(ask_tool_results') = Len(ask_tool_results) + 1
       /\ call_result.kind = "raise"
          => /\ ~ask_tool_results'[Len(ask_tool_results')].success
             /\ ask_tool_results'[Len(ask_tool_results')].error = call_result.msg
             /\ ask_tool_results'[Len(ask_tool_results')].status_code = 0

\* C16: a tool call that fails (arguments that do not parse, a name not in the
\* endpoint table, an execution that raises) yields a failure record with
\* success false and an error string; the remaining tool calls are still
\* executed and the second completion is still requested.
C16_FailureRecords == [][ToolReturnStep]_vars /\ []ToolFailuresRecorded

C16_Witness ==
    /\ ask_pc = "done"
    /\ Len(ask_first.tool_calls) = 2
    /\ ~ask_tool_results[1].success
    /\ ask_tool_results[1].error = "Request timed out: timed out"
    /\ ask_tool_results[2].success
    /\ ask_second.kind = "response"

\* C17: within an ask the first completion comes first, then tool call 1, 2,
\* ..., k are executed in the order received, each after the record of the one
\* before it exists, at most one at a time, and the second completion comes
\* after the last of them.
C17_Sequential ==
    /\ ask_pc = "tools"
       => /\ llm_calls = 1
          /\ ask_first.kind = "response"
          /\ ask_second.kind = "none"
          /\ ask_next \in 1..(Len(ask_first.tool_calls) + 1)
          /\ Len(ask_tool_results) = ask_next - 1
          /\ ex_pc # "idle"
             => /\ ex_caller = "agent"
                /\ ask_next <= Len(ask_first.tool_calls)
                /\ ex_args.name = ask_first.tool_calls[ask_next].name
                /\ ParseArguments(ask_first.tool_calls[ask_next])[1]
                   => ex_args.params = ParseArguments(ask_first.tool_calls[ask_next])[2]
    /\ ask_pc # "tools" => ex_pc = "idle"
    /\ ask_second.kind # "none"
       => /\ Len(ask_tool_results) = Len(ask_first.tool_calls)
          /\ ex_pc = "idle"

C17_Witness ==
    /\ ask_pc = "tools"
    /\ ask_next = 2
    /\ Len(ask_tool_results) = 1
    /\ ex_pc = "running"
    /\ ask_first.tool_calls[1].name # ask_first.tool_calls[2].name
    /\ ex_args.name = ask_first.tool_calls[2].name

\* The message list of the first completion: system prompt, history, question.
FirstMessages ==
    <<Msg("system", SystemPrompt, <<>>, None)>> \o ask_hist0 \o <<UserMsg(ask_question)>>

\* C18: after k >= 1 tool calls, the message list of the second completion is
\* the list of the first completion, then one assistant message with all k
\* tool calls, then k tool messages in call order, the i-th carrying the i-th
\* call's identifier and the i-th result record.
C18_SecondMessageList ==
    ask_second.kind # "none"
    => LET k == Len(ask_first.tool_calls)
           n == Len(FirstMessages)
       IN  /\ k >= 1
           /\ Len(ask_messages) = n + 1 + k
           /\ SubSeq(ask_messages, 1, n) = FirstMessages
           /\ ask_messages[n + 1].role = "assistant"
           /\ ask_messages[n + 1].tool_calls = ask_first.tool_calls
           /\ ask_messages[n + 1].content = ask_first.content
           /\ \A i \in 1..k :
                 /\ ask_messages[n + 1 + i].role = "tool"
                 /\ ask_messages[n + 1 + i].tool_call_id = ask_first.tool_calls[i].id
                 /\ ask_messages[n + 1 + i].content = JsonDumps(ask_tool_results[i])
                 /\ ask_messages[n + 1 + i].tool_calls = <<>>

C18_Witness ==
    /\ ask_second.kind = "response"
    /\ Len(ask_first.tool_calls) = 2
    /\ ask_first.tool_calls[1].id # ask_first.tool_calls[2].id
    /\ ask_tool_results[1] # ask_tool_results[2]
    /\ Len(ask_messages) = Len(ask_hist0) + 5
    /\ Len(ask_hist0) > 0

Answered401(t) ==
    /\ id_pc[t] # "idle"
    /\ id_pc'[t] = "idle"
    /\ id_result'[t].resp.kind = "response"
    /\ id_result'[t].resp.status = 401

RaisesAuthenticationError(t) ==
    /\ id_result'[t].kind = "raise"
    /\ id_result'[t].error = "AuthenticationError"

\* C20: a refresh answered with 401 ends with the access token, the refresh
\* token and the expiry cleared and AuthenticationError raised; a login
\* answered with 401 raises AuthenticationError and leaves the stored tokens
\* and expiry as they were.
C20_Unauthorized ==
    [][\A t \in Tasks :
          Answered401(t)
          => /\ id_pc[t] \in {"refresh", "ensure"}
                => /\ access_token' = None
                   /\ refresh_token' = None
                   /\ expires_at' = 0
                   /\ RaisesAuthenticationError(t)
             /\ id_pc[t] = "login"
                => /\ UNCHANGED <<access_token, refresh_token, expires_at>>
                   /\ RaisesAuthenticationError(t)]_vars

C20_Witness ==
    /\ id_pc["t1"] = "idle"
    /\ id_result["t1"].op = "refresh"
    /\ id_result["t1"].resp.status = 401
    /\ id_result["t1"].error = "AuthenticationError"
    /\ id_pre["t1"].access = "a1"
    /\ id_pre["t1"].refresh = "r1"
    /\ access_token = None
    /\ refresh_token = None
    /\ expires_at = 0

\* The step in which an ensure_valid_token() of task t that found no valid
\* access token ends.
EnsureEndsFromExpired(t) ==
    /\ id_pc[t] \in {"idle", "ensure"}
    /\ id_pc'[t] = "idle"
    /\ now' = now
    /\ id_result'[t].op = "ensure"
    /\ ~id_pre'[t].valid

NoTokensStored == access_token = None /\ refresh_token = None /\ expires_at = 0

InFlight(t) == id_pc[t] \in {"login", "refresh", "ensure", "logout"}

\* At most one login, refresh or logout is between its request and its answer.
OneIdentityOperation ==
    \A t1, t2 \in Tasks : (InFlight(t1) /\ InFlight(t2)) => t1 = t2

\* The step in which a login or refresh of task t stores the tokens of its
\* answer: the stored refresh token is still the one t found when it sent its
\* request (no logout or other operation has written the token state since).
StoresOverUnchangedState ==
    \A t \in Tasks :
        (/\ id_pc[t] \in {"login", "refresh", "ensure"}
         /\ id_pc'[t] = "idle"
         /\ id_result'[t].resp.kind = "response"
         /\ id_result'[t].resp.status = 200)
        => refresh_token = id_sent[t]

\* C22: at most one of login, refresh and logout runs at a time, and no login
\* or refresh that started before a logout cleared the token state stores its
\* tokens after that logout.
C22_ExclusiveOperations == []OneIdentityOperation /\ [][StoresOverUnchangedState]_vars

\* Endpoints i < j of descriptor d have the same generated name and different
\* operationIds.
NamesCollide(d, i, j) ==
    /\ i < j
    /\ GenerateEndpointName(d[i]) = GenerateEndpointName(d[j])
    /\ Truthy(d[i].operationId)
    /\ Truthy(d[j].operationId)
    /\ d[i].operationId # d[j].operationId

\* C23 as stated: of two endpoints with the same generated name and different
\* operationIds, each is found under its own operationId, and the shared
\* generated name gives the one that comes later in the descriptor.
C23_CollidingNames ==
    \A i, j \in 1..Len(descriptor) :
        NamesCollide(descriptor, i, j)
        => /\ FindEndpoint(endpoint_cache, descriptor[i].operationId) = descriptor[i]
           /\ FindEndpoint(endpoint_cache, descriptor[j].operationId) = descriptor[j]
           /\ FindEndpoint(endpoint_cache, GenerateEndpointName(descriptor[j]))
                = descriptor[j]

\* The keys _build_endpoint_cache writes for descriptor d.
DerivedKeys(d) ==
    {d[i].operationId : i \in {k \in 1..Len(d) : Truthy(d[k].operationId)}}
    \cup {GenerateEndpointName(d[i]) : i \in 1..Len(d)}
    \cup {MethodPathKey(d[i]) : i \in 1..Len(d)}

\* C24: once a discover() has returned, whatever was discovered before, the
\* table holds exactly the keys derived from the descriptor fetched last, and
\* it is the table a single discovery of that descriptor builds from nothing
\* (so that discovering a descriptor twice gives the table of discovering it
\* once).
C24_ReplacesNeverMerges ==
    (disc_pc = "idle" /\ descriptor # NoDescriptor)
    => /\ DOMAIN endpoint_cache = DerivedKeys(descriptor)
       /\ endpoint_cache = BuildEndpointCache(descriptor)

\* A name that an earlier descriptor's table resolved is gone after the
\* discovery of another descriptor.
C24_Witness ==
    /\ disc_pc = "idle"
    /\ descriptor # NoDescriptor
    /\ observed.op = "get_endpoint"
    /\ observed.descriptor \notin {NoDescriptor, descriptor}
    /\ observed.endpoint # NoEndpoint
    /\ observed.endpoint = FindEndpoint(BuildEndpointCache(observed.descriptor), observed.name)
    /\ observed.name \notin DOMAIN endpoint_cache
    /\ DOMAIN endpoint_cache = DerivedKeys(descriptor)

\* What a lookup returned is what the complete table t would have given it.
ObservedFrom(t) ==
    /\ observed.op = "get_endpoint" => observed.endpoint = FindEndpoint(t, observed.name)
    /\ observed.op = "list_endpoints" => observed.keys = DOMAIN t

\* Every lookup that returned saw the complete table of before the discover()
\* in progress or the complete table of the descriptor it fetched.
CompleteTableObserved ==
    (observed.op # None /\ ~observed.raised)
    => \/ ObservedFrom(observed.old)
       \/ ObservedFrom(BuildEndpointCache(observed.descriptor))

\* The descriptor and the table a caller can read belong together.
DescriptorMatchesTable ==
    descriptor # NoDescriptor => endpoint_cache = BuildEndpointCache(descriptor)

\* C25: a lookup running while discover() runs observes the complete previous
\* table or the complete new one, never an empty or partly rebuilt one, and
\* never a descriptor that does not match the table.
C25_AtomicSwap == CompleteTableObserved /\ DescriptorMatchesTable

AllowedMethods == {"GET", "POST", "PUT", "DELETE", "PATCH"}

\* The rules of a descriptor that the payload b breaks.
ViolatedRules(b) ==
    (IF b.name \in {Missing, ""} THEN {"name"} ELSE {})
    \cup (IF b.endpoints = <<>> THEN {"endpoints"} ELSE {})
    \cup (IF \E i \in 1..Len(b.endpoints) : b.endpoints[i].path = "" THEN {"path"} ELSE {})
    \cup (IF \E i \in 1..Len(b.endpoints) : b.endpoints[i].method \notin AllowedMethods
          THEN {"method"} ELSE {})
    \cup (IF \E i, j \in 1..Len(b.endpoints) :
                i # j /\ b.endpoints[i] = b.endpoints[j]
          THEN {"duplicate"} ELSE {})

\* Every descriptor that fetch returns keeps the rules.
ReturnedDescriptorValid ==
    fetch_result.kind = "return"
    => LET d == fetch_result.descriptor
       IN  /\ d.name \notin {Missing, ""}
           /\ Len(d.endpoints) >= 1
           /\ \A i \in 1..Len(d.endpoints) :
                 /\ d.endpoints[i].path # ""
                 /\ d.endpoints[i].method \in AllowedMethods
           /\ \A i, j \in 1..Len(d.endpoints) :
                 i # j => <<d.endpoints[i].method, d.endpoints[i].path>>
                            # <<d.endpoints[j].method, d.endpoints[j].path>>

\* A JSON payload that breaks a rule makes fetch raise a DiscoveryError from
\* the statement that checks a broken rule, or from the schema validation that
\* names the offending field.
ViolationRaisesDiscoveryError ==
    (/\ fetch_result.kind # "none"
     /\ fetch_response.kind = "response"
     /\ fetch_response.status = 200
     /\ fetch_response.body.json # "invalid"
     /\ ViolatedRules(fetch_response.body) # {})
    => /\ fetch_result.kind = "raise"
       /\ fetch_result.error = "DiscoveryError"
       /\ fetch_result.rule \in ViolatedRules(fetch_response.body) \cup {"format"}

\* C26: every descriptor fetch returns has a non-empty name, at least one
\* endpoint, only endpoints with a non-empty path and an allowed method, and
\* no two endpoints with the same method and path; a payload that breaks one
\* of these makes fetch raise a DiscoveryError naming the broken rule.
C26_ValidatedOrDiscoveryError == ReturnedDescriptorValid /\ ViolationRaisesDiscoveryError

\* The kind of failure that the answer r is, "" when r carries a descriptor
\* that keeps every rule.
FailureKind(r) ==
    IF r.kind = "request_error" THEN "transport"
    ELSE IF r.status = 404 THEN "not_found"
    ELSE IF r.status # 200 THEN "http_status"
    ELSE IF r.body.json = "invalid" THEN "invalid_json"
    ELSE IF r.body.json # "object" \/ PydanticErrors(r.body) # <<>> THEN "format"
    ELSE IF ViolatedRules(r.body) # {} THEN "validation"
    ELSE ""

\* C27: every failure of fetch is a DiscoveryError and no other exception: a
\* 404, another error status, a transport failure, a body that is not JSON,
\* JSON that has not the shape of a descriptor (a value that is not an object
\* included) and a validation failure; the 404 is told apart from the other
\* statuses and invalid JSON from a payload of the wrong shape.
C27_OnlyDiscoveryErrors ==
    fetch_result.kind # "none"
    => LET k == FailureKind(fetch_response)
       IN  /\ fetch_result.kind = "raise" => fetch_result.error = "DiscoveryError"
           /\ k = "" <=> fetch_result.kind = "return"
           /\ k \notin {"", "validation"} => fetch_result.rule = k
           /\ k = "validation" => fetch_result.rule \in ViolatedRules(fetch_response.body)

\* C28: generate_tools with a format name other than openai, anthropic and
\* generic raises a ValidationError and produces no tool list.
C28_UnsupportedFormat ==
    (tools_result.kind # "none" /\ tools_args.format \notin {"openai", "anthropic", "generic"})
    => /\ tools_result.kind = "raise"
       /\ tools_result.error = "ValidationError"
       /\ tools_result.tools = <<>>

Range(seq) == {seq[i] : i \in 1..Len(seq)}

\* The names an endpoint declares: its path placeholders, its query
\* parameters, and the properties of its body when the body is an object.
Placeholders(e) ==
    {PlaceholderName(e.path[i]) : i \in {k \in 1..Len(e.path) : e.path[k] \in PlaceholderSegs}}

DeclaredQuery(e) == {p.name : p \in {x \in Range(e.parameters) : x.in = "query"}}

RequiredQuery(e) ==
    {p.name : p \in {x \in Range(e.parameters) : x.in = "query" /\ x.required = "true"}}

DeclaredBody(e) ==
    IF e.requestBody.given /\ e.requestBody.type = "object"
    THEN Range(e.requestBody.properties) ELSE {}

\* C30: the OpenAI-format parameter schema of an endpoint has exactly the path
\* placeholders, the declared query parameters and the declared properties of
\* an object body as its properties, and its required set is exactly the
\* placeholders, the query parameters flagged required and the body properties
\* listed in the body schema's required array.
C30_ParametersRoundTrip ==
    (tools_result.kind = "return" /\ tools_args.format = "openai")
    => \A i \in 1..Len(tools_args.descriptor) :
          LET e == tools_args.descriptor[i]
              schema == tools_result.tools[i].function.parameters
          IN  /\ DOMAIN schema.properties
                   = Placeholders(e) \cup DeclaredQuery(e) \cup DeclaredBody(e)
              /\ Range(schema.required)
                   = Placeholders(e) \cup RequiredQuery(e)
                     \cup (DeclaredBody(e) \cap e.requestBody.required)

C30_Witness ==
    /\ tools_result.kind = "return"
    /\ tools_args.format = "openai"
    /\ LET e == tools_args.descriptor[1]
           schema == tools_result.tools[1].function.parameters
       IN  /\ Placeholders(e) = {"id"}
           /\ \E p \in Range(e.parameters) : p.in = "header" /\ p.name = "q"
           /\ \E p \in Range(e.parameters) : p.in = "query" /\ p.name = "q" /\ p.required = Missing
           /\ e.requestBody.properties = <<"q", "name">>
           /\ e.requestBody.required = {"name"}
           /\ DOMAIN schema.properties = {"id", "q", "name"}
           /\ Range(schema.required) = {"id", "name"}

\* A parameter map as it goes on the wire: an empty map and no map are the
\* same empty query string, or the same missing body.
SentMap(m) == IF m = {} THEN Absent ELSE m

\* C29: GET and DELETE put the parameter map into the query string and send no
\* body; POST, PUT and PATCH send the parameter map as the JSON body unless a
\* body payload was given explicitly, an empty one included, and then send
\* that payload and ignore the parameter map.
C29_ParameterPlacement ==
    execute_kwargs # NotCalled
    => IF execute_args.endpoint.method \in {"GET", "DELETE"}
       THEN /\ execute_kwargs.params = SentMap(execute_args.params)
            /\ execute_kwargs.json = Absent
       ELSE /\ execute_kwargs.params = Absent
            /\ execute_kwargs.json = IF execute_args.json_data # Absent
                                     THEN execute_args.json_data
                                     ELSE SentMap(execute_args.params)

\* C31: for every endpoint of the discovered descriptor, the tool name that
\* the generator gives it is a key of the table, and the table gives back that
\* endpoint for it.
C31_ToolNamesResolve ==
    \A i \in 1..Len(descriptor) :
        /\ GenerateFunctionName(descriptor[i]) \in DOMAIN endpoint_cache
        /\ FindEndpoint(endpoint_cache, GenerateFunctionName(descriptor[i])) = descriptor[i]

\* A Client.call has ended and its caller has not yet taken the result.
ClientCallDone == ex_pc = "done" /\ ex_caller = "client"

\* C32: Client.call with a name that is no key of the table raises a
\* ValidationError that names it and sends no request; Client.call before any
\* successful discovery raises a SocketAgentError and sends no request.
C32_CallRejected ==
    ClientCallDone
    => /\ (descriptor = NoDescriptor \/ ~has_executor)
          => /\ call_result.kind = "raise"
             /\ call_result.error = "SocketAgentError"
             /\ requests = <<>>
       /\ (descriptor # NoDescriptor /\ has_executor
           /\ ex_args.name \notin DOMAIN endpoint_cache)
          => /\ call_result
                  = Raised("ValidationError", "Endpoint not found: " \o ex_args.name)
             /\ requests = <<>>

C32_Witness ==
    /\ ClientCallDone
    /\ descriptor # NoDescriptor
    /\ ex_args.name = "nope"
    /\ call_result = Raised("ValidationError", "Endpoint not found: nope")
    /\ requests = <<>>

\* The runs of one kind of hook during the call, in the order they happened.
HookRuns(hook) == SelectSeq(mw_trace, LAMBDA t : t.hook = hook)

\* The hook ran for every middleware, in registration order.
FullOrder(hook) ==
    /\ Len(HookRuns(hook)) = Len(middlewares)
    /\ \A k \in 1..Len(HookRuns(hook)) : HookRuns(hook)[k].mw = k

\* Each run of the hook received what the run before it produced.
Chained(hook) ==
    LET runs == HookRuns(hook)
    IN  \A k \in 1..(Len(runs) - 1) :
           CASE hook = "before_request" ->
                    runs[k + 1].params = BeforeRequest(runs[k].mw, runs[k].params)
             [] hook = "on_error" ->
                    runs[k + 1].error = OnError(runs[k].mw, runs[k].error)
             [] OTHER ->
                    runs[k + 1].response = AfterResponse(runs[k].mw, runs[k].response)

\* The call reached executor.execute and has ended.
MwCallEnded == mw_pc \in {"returned", "raised"} /\ HookRuns("execute") # <<>>

\* C33: in a call with middlewares every kind of hook runs over the whole
\* list in registration order: every before_request before the request, every
\* on_error when the execution raised, every after_response on the response,
\* each receiving what the one before produced.
C33_AllHooksInOrder ==
    MwCallEnded
    => /\ FullOrder("before_request")
       /\ Chained("before_request")
       /\ \A k \in 1..Len(mw_trace) :
             mw_trace[k].hook = "before_request" => k <= Len(middlewares)
       /\ HookRuns("on_error") # <<>> => FullOrder("on_error") /\ Chained("on_error")
       /\ mw_pc = "returned" => FullOrder("after_response") /\ Chained("after_response")

\* executor.execute raised during the call that has ended.
ExecutionRaised ==
    /\ MwCallEnded
    /\ \/ HookRuns("on_error") # <<>>
       \/ middlewares = <<>> /\ mw_pc = "raised"

\* Some on_error hook that ran returned None.
SomeHookSuppressed ==
    \E k \in 1..Len(HookRuns("on_error")) :
        OnError(HookRuns("on_error")[k].mw, HookRuns("on_error")[k].error) = NoError

\* C34: when the executor raises and an on_error hook returns None, call
\* raises nothing and makes a response with success false, status code 0 and
\* no data that goes through every after_response hook; when no on_error hook
\* returns None, the error that the last hook returned is raised and no
\* after_response hook runs.
C34_SuppressOrRaise ==
    ExecutionRaised
    => IF SomeHookSuppressed
       THEN /\ mw_pc = "returned"
            /\ FullOrder("after_response")
            /\ Chained("after_response")
            /\ LET first == HookRuns("after_response")[1].response
               IN  /\ first.success = FALSE
                   /\ first.status_code = 0
                   /\ first.data = None
            /\ mw_response
                 = AfterResponse(Len(middlewares),
                                 HookRuns("after_response")[Len(middlewares)].response)
       ELSE /\ mw_pc = "raised"
            /\ HookRuns("after_response") = <<>>
            /\ FullOrder("on_error")
            /\ Chained("on_error")
            /\ middlewares # <<>>
               => mw_error = OnError(Len(middlewares),
                                     HookRuns("on_error")[Len(middlewares)].error)
            /\ mw_error # NoError

C34_Witness ==
    /\ ExecutionRaised
    /\ Len(middlewares) = 2
    /\ middlewares[1].on_error = "suppress"
    /\ middlewares[2].after = "modify"
    /\ mw_pc = "returned"
    /\ mw_response = [SuppressedResponse EXCEPT !.by = <<2>>]

C34_WitnessRaised ==
    /\ ExecutionRaised
    /\ Len(middlewares) = 2
    /\ middlewares[1].on_error = "replace"
    /\ mw_pc = "raised"
    /\ mw_error.name = "Replaced"

\* The attempt answered by o failed in the transport (timeout or request error).
TransientlyFailed(o) == o.kind \in {"timeout", "request_error"}

\* C35: an execute makes at most max_retries HTTP attempts; a backoff sleep of
\* 2^(i-1) follows attempt i only when that attempt failed transiently and
\* attempt i+1 is made (none after the last attempt, none after a response or
\* a non-transport exception); a non-transport exception ends the call after
\* that attempt with an ExecutionError.
C35_AttemptsAndBackoff ==
    LET n == Len(outcomes)
        slept == IF ex_pc = "done" /\ n > 0 THEN n - 1 ELSE n
    IN  /\ Len(requests) = n
        /\ n <= max_retries \/ n = 0
        /\ sleeps = [i \in 1..slept |-> Pow2(i - 1)]
        /\ \A i \in 1..slept : TransientlyFailed(outcomes[i]) /\ i < max_retries
        /\ ex_pc = "running" => attempt = n /\ n < max_retries
        /\ \A i \in 1..n :
               outcomes[i].kind = "exception"
               => /\ i = n
                  /\ ex_pc = "done"
                  /\ call_result.kind = "raise"
                  /\ call_result.error = "ExecutionError"

C35_Witness ==
    /\ ex_pc = "done"
    /\ max_retries = 3
    /\ Len(outcomes) = 3
    /\ outcomes[1].kind = "timeout"
    /\ outcomes[2].kind = "request_error"
    /\ outcomes[3].kind = "exception"
    /\ sleeps = <<1, 2>>
    /\ call_result.error = "ExecutionError"

\* C36: an ask that raises leaves the conversation history as it was before
\* the call, whether the first completion, a step in between or the second
\* completion failed; while the ask runs nothing is appended either.
C36_FailedAskKeepsHistory ==
    /\ ask_pc = "tools" => conversation_history = ask_hist0
    /\ (ask_pc = "done" /\ ask_result.kind = "raise") => conversation_history = ask_hist0

C36_Witness ==
    /\ ask_pc = "done"
    /\ ask_result.kind = "raise"
    /\ ask_second.kind = "raise"
    /\ Len(ask_tool_results) = 2
    /\ Len(ask_messages) = Len(ask_hist0) + 5
    /\ Len(ask_hist0) = 18
    /\ conversation_history = ask_hist0

C36_WitnessFirst ==
    /\ ask_pc = "done"
    /\ ask_result.kind = "raise"
    /\ ask_first.kind = "raise"
    /\ ask_count = 2
    /\ Len(conversation_history) = 20

\* The history alternates user and assistant entries, a user entry first.
Alternates(history) ==
    /\ Len(history) % 2 = 0
    /\ \A i \in 1..Len(history) :
          history[i].role = IF i % 2 = 1 THEN "user" ELSE "assistant"

\* C37: after any asks and resets the history has even length, alternates
\* user and assistant entries starting with a user entry and holds no system
\* or tool message; the message list of a first completion has at most 22
\* entries.
C37_HistoryAlternates ==
    /\ Alternates(conversation_history)
    /\ \A i \in 1..Len(conversation_history) :
          conversation_history[i].role \notin {"system", "tool"}
    /\ Len(conversation_history) <= HistoryLimit
    /\ ask_pc # "idle"
       => /\ Len(FirstMessages) <= HistoryLimit + 2
          /\ SubSeq(ask_messages, 1, Len(FirstMessages)) = FirstMessages

C37_Witness ==
    /\ ask_pc = "tools"
    /\ ask_count = 2
    /\ Len(ask_hist0) = 20
    /\ ask_hist0[1].content = "q0"
    /\ ask_hist0[19].content = "q1"
    /\ Len(FirstMessages) = 22
    /\ Len(ask_messages) = 22

\* C38: for a client with an identity client and an executor, after every
\* completed authenticate(), ensure_authenticated() or logout(), returned or
\* raised, the executor's auth_token is the Token Manager's access token, and
\* is absent when the Token Manager holds none.
C38_ExecutorFollowsToken ==
    (/\ has_identity
     /\ has_executor
     /\ cred_result.op \in {"authenticate", "ensure_authenticated", "logout"})
    => executor_auth_token = access_token

\* C39: once logout() has returned, for a client with an identity service or
\* a static bearer token, is_authenticated() is false and no request carries a
\* bearer Authorization header, a later discover() notwithstanding, until
\* authenticate() succeeds again.
C39_LoggedOutStaysOut ==
    (logged_out /\ (has_identity \/ auth_token # None))
    => /\ ~ClientIsAuthenticated
       /\ cred_result.op = "request" => cred_result.bearer = None

\* A step of a discover() whose fetch or validation raised.
FailedDiscoverStep == fetch_result'.kind = "raise" /\ UNCHANGED execVars

\* C40: a discover() that fails in the fetch or the validation of the
\* descriptor leaves the descriptor, the executor and the Endpoint Name Table
\* as they were.
C40_FailedDiscoverChangesNothing ==
    [][FailedDiscoverStep
       => UNCHANGED <<descriptor, has_executor, max_retries, endpoint_cache,
                      executor_auth_token>>]_vars

\* An endpoint of the earlier discovery is called, and answered, after a
\* later discover() failed in validation.
C40_Witness ==
    /\ fetch_result.kind = "raise"
    /\ fetch_result.rule = "duplicate"
    /\ Len(descriptor) = 2
    /\ ex_pc = "done"
    /\ ex_args.name = "list_items"
    /\ call_result.kind = "return"

====
